---- MODULE Spec2Model ----
(***************************************************************************)
(* The download engine of internal/util/download/file.go:                  *)
(* DownloadWithProgress (bounded retry, insecure fallback for trusted      *)
(* sources) around attemptDownload / attemptDownloadInsecure (resumable    *)
(* transfer into "<dest>.tmp", committed by a rename).                     *)
(*                                                                         *)
(* Files are records [exists, data]; data is a sequence of bytes.  Strings *)
(* (URLs, error texts) are sequences of one-character strings, so that the *)
(* substring matching of contains is computed character by character.      *)
(* Time is counted in milliseconds.                                        *)
(*                                                                         *)
(* Further specifications share the module: SpecServed is the engine       *)
(* against a server and a disk that never fail, SpecFormat applies         *)
(* formatSpeed to a range of rates, SpecTransfers interleaves the file     *)
(* operations of two concurrent calls, and SpecNews is the cache of        *)
(* internal/news/news.go NewsService.GetNews (time in minutes), which      *)
(* SpecNewsHonest runs against a server that keeps to the limit asked for. *)
(* SpecFallback and SpecRunning are the engine on fewer calls, SpecRelease *)
(* is DownloadReleaseAsset with the caller's context, SpecContains applies *)
(* contains to short strings, SpecSimple is DownloadFile, and SpecEnv is   *)
(* the instance directories of internal/env/env.go.                        *)
(***************************************************************************)
EXTENDS Integers, Sequences, FiniteSets, TLC

\* ---------------------------------------------------------------- bounds
ContentLen == 3      \* bytes of the resource served at the URL
MaxChunk == 2        \* most bytes one Body.Read returns
MaxUnits == 5        \* formatSpeed is applied to rates up to MaxUnits MB/s
MaxWrites == 1       \* chunks of a response in the concurrent transfers
MaxItems == 2        \* most items of a news feed
MaxNow == 6          \* minutes the clock of the news service runs
MaxStr == 3          \* longest string contains is applied to
MaxVersion == 2      \* highest game version
MaxDirs == 1         \* most instance directories on disk

\* ------------------------------------------------------- program constants
maxRetries == 3
cacheTTL == 5        \* minutes
UpdateIntervalMs == 100
StatusOK == 200
StatusPartialContent == 206

\* --------------------------------------------------------------- strings
UrlGithub == <<"h","t","t","p","s",":","/","/","g","i","t","h","u","b",".","c","o","m","/","a">>
UrlEvil == <<"h","t","t","p","s",":","/","/","e","v","i","l",".","i","o","/","g","i","t","h","u","b",".","c","o","m">>
UrlPlain == <<"h","t","t","p","s",":","/","/","e","v","i","l",".","i","o","/","a">>
UrlBad == <<":","/","/","e","v","i","l",".","i","o","/","t","l","s">>
Urls == {"github", "evil", "plain", "bad"}
\* the urls DownloadReleaseAsset builds for the asset "a" (lines 406, 409)
UrlRepo == <<"h","t","t","p","s",":","/","/","g","i","t","h","u","b",".","c","o","m","/","y","y","y","u","m","e","n","i","k","u","/","H","y","P","r","i","s","m">>
UrlStable == UrlRepo \o <<"/","r","e","l","e","a","s","e","s","/","l","a","t","e","s","t","/","d","o","w","n","l","o","a","d","/","a">>
UrlNightly == UrlRepo \o <<"/","r","e","l","e","a","s","e","s","/","d","o","w","n","l","o","a","d","/","n","i","g","h","t","l","y","/","a">>

\* the url string of each call input
UrlString(u) ==
    CASE u = "github" -> UrlGithub
      [] u = "evil" -> UrlEvil
      [] u = "plain" -> UrlPlain
      [] u = "bad" -> UrlBad
      [] u = "stable" -> UrlStable
      [] u = "nightly" -> UrlNightly

TxtScheme == <<"h","t","t","p","s",":","/","/">>
TxtMkdir == <<"f","a","i","l","e","d"," ","t","o"," ","c","r","e","a","t","e"," ","d","i","r","e","c","t","o","r","y",":"," ">>
TxtDenied == <<"p","e","r","m","i","s","s","i","o","n"," ","d","e","n","i","e","d">>
TxtStatus == <<"u","n","e","x","p","e","c","t","e","d"," ","s","t","a","t","u","s"," ","c","o","d","e",":"," ">>
TxtX509 == <<"x","5","0","9",":"," ","c","e","r","t","i","f","i","c","a","t","e"," ","s","i","g","n","e","d"," ","b","y"," ","u","n","k","n","o","w","n"," ","a","u","t","h","o","r","i","t","y">>
TxtRefused == <<"c","o","n","n","e","c","t","i","o","n"," ","r","e","f","u","s","e","d">>
TxtBadMac == <<"t","l","s",":"," ","b","a","d"," ","r","e","c","o","r","d"," ","M","A","C">>
TxtUEOF == <<"u","n","e","x","p","e","c","t","e","d"," ","E","O","F">>
TxtNoSpace == <<"n","o"," ","s","p","a","c","e"," ","l","e","f","t"," ","o","n"," ","d","e","v","i","c","e">>
TxtGet == <<"G","e","t"," ">>
TxtParse == <<"p","a","r","s","e"," ">>
TxtCanceled == <<"c","o","n","t","e","x","t"," ","c","a","n","c","e","l","e","d">>
TxtDeadline == <<"c","o","n","t","e","x","t"," ","d","e","a","d","l","i","n","e"," ","e","x","c","e","e","d","e","d">>
TxtNoScheme == <<"m","i","s","s","i","n","g"," ","p","r","o","t","o","c","o","l"," ","s","c","h","e","m","e">>
TxtQuote == <<"\"">>
TxtSep == <<":"," ">>

Digit(d) == <<"0","1","2","3","4","5","6","7","8","9">>[d + 1]

\* fmt's %d of a status code (three digits)
FormatStatus(code) ==
    <<Digit(code \div 100), Digit((code \div 10) % 10), Digit(code % 10)>>

\* ----------------------------------------------------------- file system
Absent == [exists |-> FALSE, data |-> <<>>]
File(d) == [exists |-> TRUE, data |-> d]

Content == [i \in 1..ContentLen |-> i]
Prefixes(s) == {SubSeq(s, 1, k) : k \in 0..Len(s)}
OldContent == <<0>>

Min(a, b) == IF a < b THEN a ELSE b

\* ------------------------------------------------------------- variables
VARIABLES
    dest,            \* the file at dest
    tmp,             \* the file at dest + ".tmp"
    pc,              \* where the engine is
    client,          \* "verified": attemptDownload, "insecure": attemptDownloadInsecure
    url,             \* the call's url
    hasCallback,     \* callback != nil
    attempt,         \* loop counter of DownloadWithProgress
    err,             \* what the last finished attempt returned
    lastErr,
    result,          \* what DownloadWithProgress returned
    resumeFrom,
    range,           \* offset of the request's Range header, NoRange without one
    resp,            \* the response of client.Do
    rest,            \* bytes of the body not read yet
    readErr,         \* what the latest Body.Read returned as its error
    startTmp,        \* the temp file as the attempt found it
    total,
    downloaded,
    lastDownloaded,
    sinceUpdate,     \* time.Since(lastUpdate), ms
    lastCb,          \* the attempt's latest callback invocation: its number,
                     \* its downloaded and total arguments, the time since
                     \* lastUpdate when it was made
    dest0,           \* dest when the call started
    log,             \* attempts and delays of the call, in order
    requests,        \* HTTP requests the call has sent
    renames,         \* renames onto dest the call has performed
    origin,          \* by byte of the temp file (of dest once renamed): "old" when
                     \* it was there before the call, else the client of the
                     \* attempt that received it
    \* formatSpeed
    bytesPerSec,     \* the argument
    speedStr,        \* the string returned, <<>> before the call
    \* two concurrent transfers
    fs,              \* the files, by path
    xdest,           \* dest of each transfer
    xpc,             \* where each transfer is
    xattempt,        \* attempt of each transfer
    xstatus,         \* status of each transfer's response
    xleft,           \* chunks each transfer has still to read
    touched,         \* by path, the transfers that wrote, truncated or renamed it
    \* NewsService
    cache,
    cacheTime,       \* minutes
    now,             \* the clock, minutes
    newsRet,         \* the latest GetNews call: its limit, its time, the cache
                     \* and cacheTime it found, its fetch, what it returned
    \* contains
    match,           \* a call of contains: the arguments s (hay) and substr
                     \* (needle), and what it returned (found): <<>> before
                     \* the return, then <<TRUE>> or <<FALSE>>
    \* DownloadFile
    df,              \* a call of DownloadFile: the files at dest and at
                     \* dest + ".tmp", where the call stands (pc), the url,
                     \* hasCallback (progressCallback != nil), the response of
                     \* client.Do (resp), the bytes of the body not read yet
                     \* (rest), the local downloaded, the progressCallback
                     \* invocations (cb: how many, the arguments of the latest),
                     \* what the call returned (ret), the requests it sent and
                     \* the bytes out.Write has written
    \* DownloadReleaseAsset
    ctx,             \* the caller's context: "live", or cancelled before or
                     \* during the call
    \* package env
    env              \* customInstanceDir (the package variable), the calls of
                     \* SetCustomInstanceDir so far (given: the directory given
                     \* last and the non-empty directory given last, <<>> when
                     \* there was none), the instance directories that exist
                     \* (present), those of them that hold the game's files
                     \* (installed), and the latest call of GetInstanceDir or
                     \* GetInstalledVersions with what it returned (ret)

downloadVars == <<dest, tmp, pc, client, url, hasCallback, attempt, err, lastErr,
                  result, resumeFrom, range, resp, rest, readErr, startTmp, total,
                  downloaded, lastDownloaded, sinceUpdate, lastCb, dest0, log,
                  requests, renames, origin>>
formatVars == <<bytesPerSec, speedStr>>
transferVars == <<fs, xdest, xpc, xattempt, xstatus, xleft, touched>>
newsVars == <<cache, cacheTime, now, newsRet>>
\* what the download engine does not touch
matchVars == <<match>>
\* the variables of the smaller specifications added later
simpleVars == <<df>>
releaseVars == <<ctx>>
envVars == <<env>>
extraVars == <<matchVars, simpleVars, releaseVars, envVars>>
auxVars == <<formatVars, transferVars, newsVars, extraVars>>
notFormatVars == <<downloadVars, transferVars, newsVars, extraVars>>
notTransferVars == <<downloadVars, formatVars, newsVars, extraVars>>
notNewsVars == <<downloadVars, formatVars, transferVars, extraVars>>
notMatchVars == <<downloadVars, formatVars, transferVars, newsVars, simpleVars,
                  releaseVars, envVars>>
notSimpleVars == <<downloadVars, formatVars, transferVars, newsVars, matchVars,
                   releaseVars, envVars>>
notReleaseVars == <<downloadVars, formatVars, transferVars, newsVars, matchVars,
                    simpleVars, envVars>>
notEnvVars == <<downloadVars, formatVars, transferVars, newsVars, matchVars,
                simpleVars, releaseVars>>
vars == <<downloadVars, auxVars>>

\* ---------------------------------------------------------------- errors
NilErr == [kind |-> "nil", inner |-> "", code |-> 0]
Err(kind, inner, code) == [kind |-> kind, inner |-> inner, code |-> code]

InnerText(inner) ==
    CASE inner = "x509" -> TxtX509
      [] inner = "refused" -> TxtRefused
      [] inner = "badmac" -> TxtBadMac
      [] inner = "ueof" -> TxtUEOF
      [] inner = "nospace" -> TxtNoSpace
      [] inner = "denied" -> TxtDenied
      [] inner = "noscheme" -> TxtNoScheme
      [] inner = "deadline" -> TxtDeadline
      [] inner = "canceled" -> TxtCanceled
      [] OTHER -> <<>>

\* err.Error(): the text isCertError matches against; the errors of
\* NewRequestWithContext and client.Do quote the call's url
ErrorText(e) ==
    CASE e.kind = "mkdir" -> TxtMkdir \o InnerText(e.inner)
      [] e.kind = "newreq" ->
            TxtParse \o TxtQuote \o UrlString(url) \o TxtQuote \o TxtSep \o InnerText(e.inner)
      [] e.kind = "transport" ->
            TxtGet \o TxtQuote \o UrlString(url) \o TxtQuote \o TxtSep \o InnerText(e.inner)
      [] e.kind = "status" -> TxtStatus \o FormatStatus(e.code)
      [] OTHER -> InnerText(e.inner)

\* ---------------------------------------------------- matching helpers
\* mutant: no occurrence is found inside the string
findSubstring_Never(s, substr) == FALSE

\* lines 92-99
findSubstring(s, substr) ==
    \E i \in 0..(Len(s) - Len(substr)) : SubSeq(s, i + 1, i + Len(substr)) = substr

contains(s, substr) ==
    /\ Len(s) >= Len(substr)
    /\ \/ s = substr
       \/ /\ Len(s) > Len(substr)
          /\ \/ SubSeq(s, 1, Len(substr)) = substr
             \/ SubSeq(s, Len(s) - Len(substr) + 1, Len(s)) = substr
             \/ findSubstring(s, substr)

certMarkers ==
    { <<"c","e","r","t","i","f","i","c","a","t","e">>,
      <<"x","5","0","9">>,
      <<"t","l","s">> }

isCertError(e) ==
    IF e = NilErr THEN FALSE
    ELSE \E m \in certMarkers : contains(ErrorText(e), m)

trustedDomains ==
    { <<"g","i","t","h","u","b",".","c","o","m">>,
      <<"g","i","t","h","u","b","u","s","e","r","c","o","n","t","e","n","t",".","c","o","m">>,
      <<"a","d","o","p","t","i","u","m",".","n","e","t">>,
      <<"i","t","c","h",".","z","o","n","e">> }

isTrustedSource(u) == \E domain \in trustedDomains : contains(UrlString(u), domain)

\* ------------------------------------------------------------------ paths
\* mutant: one temp path for every dest
TempOf_Fixed(path) == <<"a", ".tmp">>

\* line 110 (218): tempDest := dest + ".tmp"
TempOf(path) == path \o <<".tmp">>
Dests == {<<"a">>, <<"b">>, <<"a", ".tmp">>}
Paths == Dests \cup {TempOf(d) : d \in Dests}
Transfers == {1, 2}

FormatAtRest == bytesPerSec = 0 /\ speedStr = <<>>
TransfersAtRest ==
    /\ fs = [p \in Paths |-> Absent]
    /\ xdest = [t \in Transfers |-> <<"a">>]
    /\ xpc = [t \in Transfers |-> "done"]
    /\ xattempt = [t \in Transfers |-> 0]
    /\ xstatus = [t \in Transfers |-> 0]
    /\ xleft = [t \in Transfers |-> 0]
    /\ touched = [p \in Paths |-> {}]

\* -------------------------------------------------------------- news
\* the zero time.Time of a new NewsService lies far before the clock's start
ZeroTime == -100
NoNews == [called |-> FALSE, limit |-> 0, at |-> 0, cacheWas |-> <<>>,
           timeWas |-> ZeroTime, fetch |-> "none", fetched |-> <<>>,
           items |-> <<>>, err |-> FALSE]
\* NewNewsService
NewsAtRest ==
    /\ cache = <<>>
    /\ cacheTime = ZeroTime
    /\ now = 0
    /\ newsRet = NoNews

\* a component that takes no part in a specification holds the empty record
Unused == <<>>
MatchAtRest == match = Unused

NoRange == -1
UnknownLength == -1
NoResp == [status |-> 0, contentLength |-> 0, body |-> <<>>]
NoCb == [called |-> FALSE, calls |-> 0, downloaded |-> 0, total |-> 0, since |-> 0]
SimpleAtRest == df = Unused
ReleaseAtRest == ctx = "live"
NoEnvCall == [op |-> "none", branch |-> <<>>, version |-> 0, dir |-> <<>>,
              versions |-> {}]
EnvAtRest == env = Unused
ExtraAtRest == MatchAtRest /\ SimpleAtRest /\ ReleaseAtRest /\ EnvAtRest

NoResult == [status |-> "none", count |-> 0, cause |-> NilErr]

\* time that can pass between two reads of the body, ms
ReadDelays == {0, 100}

Init ==
    /\ dest \in {Absent, File(OldContent)}
    /\ tmp \in {Absent, File(OldContent)} \cup {File(p) : p \in Prefixes(Content)}
    /\ pc = "idle"
    /\ client = "verified"
    /\ url = "github"
    /\ hasCallback = FALSE
    /\ attempt = 0
    /\ err = NilErr
    /\ lastErr = NilErr
    /\ result = NoResult
    /\ resumeFrom = 0
    /\ range = NoRange
    /\ resp = NoResp
    /\ rest = <<>>
    /\ readErr = "nil"
    /\ startTmp = Absent
    /\ total = 0
    /\ downloaded = 0
    /\ lastDownloaded = 0
    /\ sinceUpdate = 0
    /\ lastCb = NoCb
    /\ dest0 = dest
    /\ log = <<>>
    /\ requests = 0
    /\ renames = 0
    /\ origin = [i \in 1..Len(tmp.data) |-> "old"]
    /\ FormatAtRest
    /\ TransfersAtRest
    /\ NewsAtRest
    /\ ExtraAtRest

attemptVars == <<resumeFrom, range, resp, rest, readErr, startTmp, total, downloaded,
                 lastDownloaded, sinceUpdate, lastCb>>
frameVars == <<resumeFrom, range, resp, rest, readErr, startTmp, total, downloaded,
               lastDownloaded, sinceUpdate>>
callVars == <<url, hasCallback, dest0>>

\* ------------------------------------------------- DownloadWithProgress
\* the locals of an attempt before it has set them
FreshLocals ==
    /\ resumeFrom' = 0
    /\ range' = NoRange
    /\ resp' = NoResp
    /\ rest' = <<>>
    /\ readErr' = "nil"
    /\ startTmp' = Absent
    /\ total' = 0
    /\ downloaded' = 0
    /\ lastDownloaded' = 0
    /\ sinceUpdate' = 0
    /\ lastCb' = NoCb

\* lines 30-33: the call starts and enters the first attempt
Call(u, cb) ==
    /\ pc = "idle"
    /\ url' = u
    /\ hasCallback' = cb
    /\ attempt' = 1
    /\ lastErr' = NilErr
    /\ err' = NilErr
    /\ result' = NoResult
    /\ client' = "verified"
    /\ pc' = "start"
    /\ dest0' = dest
    /\ log' = <<>>
    /\ requests' = 0
    /\ renames' = 0
    /\ FreshLocals
    /\ UNCHANGED <<dest, tmp, origin>>
    /\ UNCHANGED auxVars

\* mutant: the test of the attempt's error is inverted
Succeeded_Inverted(e) == e # NilErr

\* lines 34, 45
Succeeded(e) == e = NilErr

\* mutant: the first failure is kept instead of the latest
Remember_First(last, e) == IF last = NilErr THEN e ELSE last

\* lines 38, 49
Remember(last, e) == e

\* mutant: the fallback is tied to the second attempt
ShouldFallback_SecondAttempt(a, e, u) == a = 2 /\ isCertError(e) /\ isTrustedSource(u)

\* mutant: the fallback follows every verified attempt
ShouldFallback_AnyAttempt(a, e, u) == isCertError(e) /\ isTrustedSource(u)

\* mutant: the fallback does not ask for a trusted source
ShouldFallback_AnySource(a, e, u) == a = 1 /\ isCertError(e)

\* line 42
ShouldFallback(a, e, u) == a = 1 /\ isCertError(e) /\ isTrustedSource(u)

\* mutant: the delay also follows the last attempt
ShouldSleep_Always(a) == a <= maxRetries

\* line 52
ShouldSleep(a) == a < maxRetries

\* mutant: the loop has no bound
LoopContinues_Forever(a) == TRUE

\* line 32
LoopContinues(a) == a <= maxRetries

\* line 57
Exhausted(e) == [status |-> "error", count |-> maxRetries, cause |-> e]

\* lines 35, 47
Success == [status |-> "ok", count |-> 0, cause |-> NilErr]

\* lines 34-44: the verified attempt has returned
AfterVerified ==
    /\ pc = "afterVerified"
    /\ IF Succeeded(err)
       THEN /\ result' = Success
            /\ pc' = "done"
            /\ UNCHANGED <<lastErr, client>>
       ELSE /\ lastErr' = Remember(lastErr, err)
            /\ IF ShouldFallback(attempt, err, url)
               THEN pc' = "start" /\ client' = "insecure"
               ELSE pc' = "sleep" /\ UNCHANGED client
            /\ UNCHANGED result
    /\ lastCb' = IF Succeeded(err) THEN lastCb ELSE NoCb
    /\ UNCHANGED <<dest, tmp, origin, attempt, err, log, requests, renames>>
    /\ UNCHANGED frameVars
    /\ UNCHANGED callVars
    /\ UNCHANGED auxVars

\* The older DownloadWithProgress (src/unnamed/part_000 lines 33-39), whose
\* attemptDownload and delay are the text of file.go: the attempt has
\* returned; there is no fallback
OldAfterAttempt ==
    /\ pc = "afterVerified"
    /\ IF Succeeded(err)
       THEN /\ result' = Success
            /\ pc' = "done"
            /\ UNCHANGED lastErr
       ELSE /\ lastErr' = Remember(lastErr, err)
            /\ pc' = "sleep"
            /\ UNCHANGED result
    /\ lastCb' = IF Succeeded(err) THEN lastCb ELSE NoCb
    /\ UNCHANGED <<dest, tmp, origin, attempt, err, client, log, requests, renames>>
    /\ UNCHANGED frameVars
    /\ UNCHANGED callVars
    /\ UNCHANGED auxVars

\* lines 45-50: the insecure attempt has returned
AfterInsecure ==
    /\ pc = "afterInsecure"
    /\ IF Succeeded(err)
       THEN /\ result' = Success
            /\ pc' = "done"
            /\ UNCHANGED lastErr
       ELSE /\ lastErr' = Remember(lastErr, err)
            /\ pc' = "sleep"
            /\ UNCHANGED result
    /\ lastCb' = IF Succeeded(err) THEN lastCb ELSE NoCb
    /\ UNCHANGED <<dest, tmp, origin, attempt, err, client, log, requests, renames>>
    /\ UNCHANGED frameVars
    /\ UNCHANGED callVars
    /\ UNCHANGED auxVars

\* mutant: a status failure is not retried
NextIteration_StatusIsFinal ==
    /\ pc = "sleep"
    /\ log' = IF ShouldSleep(attempt) /\ lastErr.kind # "status"
              THEN Append(log, [ev |-> "delay", ok |-> TRUE])
              ELSE log
    /\ attempt' = attempt + 1
    /\ IF LoopContinues(attempt') /\ lastErr.kind # "status"
       THEN /\ client' = "verified"
            /\ pc' = "start"
            /\ UNCHANGED result
       ELSE /\ result' = Exhausted(lastErr)
            /\ pc' = "done"
            /\ UNCHANGED client
    /\ UNCHANGED <<dest, tmp, origin, err, lastErr, requests, renames>>
    /\ UNCHANGED attemptVars
    /\ UNCHANGED callVars
    /\ UNCHANGED auxVars

\* lines 52-57, 32: the delay when attempts remain, the increment, and
\* either the next verified attempt or the final error
NextIteration ==
    /\ pc = "sleep"
    /\ log' = IF ShouldSleep(attempt)
              THEN Append(log, [ev |-> "delay", ok |-> TRUE])
              ELSE log
    /\ attempt' = attempt + 1
    /\ IF LoopContinues(attempt')
       THEN /\ client' = "verified"
            /\ pc' = "start"
            /\ UNCHANGED result
       ELSE /\ result' = Exhausted(lastErr)
            /\ pc' = "done"
            /\ UNCHANGED client
    /\ UNCHANGED <<dest, tmp, origin, err, lastErr, requests, renames>>
    /\ UNCHANGED attemptVars
    /\ UNCHANGED callVars
    /\ UNCHANGED auxVars

\* ------------------------------------- attemptDownload(/Insecure)
\* mutant: the temp file is never found
StatSize_Zero(f) == 0

\* lines 116-120 (224-228): the size of the temp file, 0 without one
StatSize(f) == IF f.exists THEN Len(f.data) ELSE 0

\* mutant: every request carries a Range header
RangeHeader_Always(r) == r

\* lines 136-138 (244-246)
RangeHeader(r) == IF r > 0 THEN r ELSE NoRange

\* lines 126-129 (234-237): NewRequestWithContext rejects a URL that has
\* no scheme before its first colon
WellFormed(u) == Len(UrlString(u)) > 0 /\ UrlString(u)[1] # ":"

\* mutant: every status is streamed to the temp file
StatusAccepted_Any(st) == TRUE

\* line 146 (254)
StatusAccepted(st) == st = StatusOK \/ st = StatusPartialContent

\* mutant: the temp file is created afresh whatever the status
OpenTemp_AlwaysCreate(st, f) == File(<<>>)

\* mutant: the temp file is opened for append whatever the status
OpenTemp_AlwaysAppend(st, f) == IF f.exists THEN f ELSE File(<<>>)

\* lines 152-157 (260-265): O_APPEND|O_WRONLY keeps the file, Create truncates
OpenTemp(st, f) == IF st = StatusPartialContent THEN f ELSE File(<<>>)

\* line 153 (261): without O_CREATE the open fails when there is no file
OpenMustFail(st, f) == st = StatusPartialContent /\ ~f.exists

\* mutant: the offset is kept when the server ignores the Range
ResumeAfterOpen_Kept(st, r) == r

\* lines 152-157 (260-265)
ResumeAfterOpen(st, r) == IF st = StatusPartialContent THEN r ELSE 0

\* line 163 (271)
TotalSize(cl, r) == cl + r

\* line 173 (281): the bytes land at the end of the temp file
WriteChunk(f, chunk) == File(f.data \o chunk)

\* line 171-173 (279-281): n more bytes, read from the response of client c
Received(o, n, c) == o \o [i \in 1..n |-> c]

\* mutant: any read error ends the loop like io.EOF
EndOfStream_AnyError(re) == re # "nil"

\* line 191 (299)
EndOfStream(re) == re = "EOF"

\* line 190 (298)
ReadFailed(re) == re # "nil" /\ ~EndOfStream(re)

\* mutant: the callback is invoked whatever time has passed
ShouldReport_Unthrottled(since, cb) == cb

\* line 179 (287)
ShouldReport(since, cb) == since >= UpdateIntervalMs /\ cb

\* mutant: the temp file is copied to the destination and stays
RenameTemp_Copy(t, d) == [tmp |-> t, dest |-> t]

\* progressWeight, in hundredths
Weights == {50, 100}

\* line 182 (290): float64(downloaded) / float64(total) * 100 * progressWeight,
\* as the fraction num/den; a division of a positive number by zero is +Inf
ProgressPercent(dl, tot, w) ==
    IF tot = 0
    THEN [inf |-> TRUE, num |-> dl, den |-> 1]
    ELSE [inf |-> FALSE, num |-> dl * w, den |-> tot]

\* line 201 (309): the temp file becomes the destination
RenameTemp(t, d) == [tmp |-> Absent, dest |-> t]

\* a return of a nil error (line 205, 313): the attempt's locals stay on
\* record until the call returns
AttemptSucceeds ==
    /\ err' = NilErr
    /\ pc' = IF client = "verified" THEN "afterVerified" ELSE "afterInsecure"
    /\ log' = Append(log, [ev |-> client, ok |-> TRUE])

\* a return of an error after the callback invocation cb: the attempt's
\* locals are gone
AttemptFailsAfter(e, cb) ==
    /\ err' = e
    /\ pc' = IF client = "verified" THEN "afterVerified" ELSE "afterInsecure"
    /\ log' = Append(log, [ev |-> client, ok |-> FALSE])
    /\ resumeFrom' = 0
    /\ range' = NoRange
    /\ resp' = NoResp
    /\ rest' = <<>>
    /\ readErr' = "nil"
    /\ startTmp' = Absent
    /\ total' = 0
    /\ downloaded' = 0
    /\ lastDownloaded' = 0
    /\ sinceUpdate' = 0
    /\ lastCb' = cb

\* a return of an error with no callback invocation in the step
AttemptFails(e) == AttemptFailsAfter(e, NoCb)

\* mutant: the callback is given the count before the chunk was added
Report_BeforeCount(n, since, dl) ==
    IF n > 0 /\ ShouldReport(since, hasCallback)
    THEN [called |-> TRUE, calls |-> lastCb.calls + 1, downloaded |-> dl - n,
          total |-> total, since |-> since]
    ELSE lastCb

\* lines 179-188 (287-296): the callback invocation of an iteration that
\* wrote n bytes, `since` after lastUpdate; the previous one when the
\* iteration makes none
Report(n, since, dl) ==
    IF n > 0 /\ ShouldReport(since, hasCallback)
    THEN [called |-> TRUE, calls |-> lastCb.calls + 1, downloaded |-> dl,
          total |-> total, since |-> since]
    ELSE lastCb

\* the errors client.Do can return: the insecure client verifies no
\* certificate; the deadline of line 123 (231) ends the request with the
\* context's error
TransportErrors(c) ==
    IF c = "verified" THEN {"x509", "refused", "deadline"} ELSE {"refused", "deadline"}

\* The server.  200 carries the whole content; 206 answers a Range below the
\* content length with the remainder; 416 answers a Range at or beyond it;
\* 500 is always possible.  A response either declares its length, and then
\* the body has that many bytes, or leaves it unknown (-1), and then the
\* body ends wherever the server ends it.
Bodies(full) ==
    {[contentLength |-> Len(full), body |-> full]}
        \cup {[contentLength |-> UnknownLength, body |-> b] :
                b \in {full, SubSeq(full, 1, Len(full) - 1)}}

Responses(rg) ==
    {[status |-> StatusOK, contentLength |-> b.contentLength, body |-> b.body] :
        b \in Bodies(Content)}
    \cup (IF rg # NoRange /\ rg < ContentLen
          THEN {[status |-> StatusPartialContent, contentLength |-> b.contentLength,
                 body |-> b.body] : b \in Bodies(SubSeq(Content, rg + 1, ContentLen))}
          ELSE {})
    \cup {[status |-> 500, contentLength |-> 0, body |-> <<>>]}
    \cup (IF rg # NoRange /\ rg >= ContentLen
          THEN {[status |-> 416, contentLength |-> 0, body |-> <<>>]}
          ELSE {})

\* The steps of an attempt are written once, for attemptDownload (c =
\* "verified", lines 101-206) and attemptDownloadInsecure (c = "insecure",
\* lines 208-314); the attempt records its return under the variable client.

\* mutant: attemptDownloadInsecure does not look for the temp file
PrepareAs_InsecureNoResume(c) ==
    /\ pc = "start"
    /\ \/ AttemptFails(Err("mkdir", "denied", 0))
       \/ IF WellFormed(url)
          THEN /\ resumeFrom' = IF c = "insecure" THEN 0 ELSE StatSize(tmp)
               /\ startTmp' = tmp
               /\ range' = RangeHeader(resumeFrom')
               /\ pc' = "do"
               /\ UNCHANGED <<err, log, resp, rest, readErr, total, downloaded,
                              lastDownloaded, sinceUpdate, lastCb>>
          ELSE AttemptFails(Err("newreq", "noscheme", 0))
    /\ UNCHANGED <<dest, tmp, origin, client, attempt, lastErr, result, requests, renames>>
    /\ UNCHANGED callVars
    /\ UNCHANGED auxVars

\* lines 108-138 (216-246): directory, stat of the temp file, request
PrepareAs(c) ==
    /\ pc = "start"
    /\ \/ AttemptFails(Err("mkdir", "denied", 0))
       \/ IF WellFormed(url)
          THEN /\ resumeFrom' = StatSize(tmp)
               /\ startTmp' = tmp
               /\ range' = RangeHeader(resumeFrom')
               /\ pc' = "do"
               /\ UNCHANGED <<err, log, resp, rest, readErr, total, downloaded,
                              lastDownloaded, sinceUpdate, lastCb>>
          ELSE AttemptFails(Err("newreq", "noscheme", 0))
    /\ UNCHANGED <<dest, tmp, origin, client, attempt, lastErr, result, requests, renames>>
    /\ UNCHANGED callVars
    /\ UNCHANGED auxVars

\* the step as the attempt that runs takes it
Prepare == PrepareAs(client)

\* mutant: the attempt's context is derived from the caller's
AttemptParent_Caller(k) == k

\* line 123 (231): the attempt's context is derived from
\* context.Background(), which is never cancelled, whatever the state k of
\* the caller's context
AttemptParent(k) == "live"

\* the error a request under a cancelled context ends with
ContextErrors(k) == IF AttemptParent(k) = "live" THEN {} ELSE {"canceled"}

\* lines 140-148 (248-256): the request is sent and the status checked, the
\* caller's context being in state k
DoIn(c, k) ==
    /\ pc = "do"
    /\ requests' = requests + 1
    /\ \/ \E inner \in TransportErrors(c) \cup ContextErrors(k) :
             AttemptFails(Err("transport", inner, 0))
       \/ \E r \in Responses(range) :
             IF StatusAccepted(r.status)
             THEN /\ resp' = r
                  /\ rest' = r.body
                  /\ pc' = "open"
                  /\ UNCHANGED <<err, log, resumeFrom, range, readErr, startTmp,
                                 total, downloaded, lastDownloaded, sinceUpdate,
                                 lastCb>>
             ELSE AttemptFails(Err("status", "", r.status))
    /\ UNCHANGED <<dest, tmp, origin, client, attempt, lastErr, result, renames>>
    /\ UNCHANGED callVars
    /\ UNCHANGED auxVars

\* the step of an attempt with client c
DoAs(c) == DoIn(c, ctx)

\* the step as the attempt that runs takes it
Do == DoAs(client)

\* lines 150-168 (258-276): the temp file is opened and the counters set
OpenAs(c) ==
    /\ pc = "open"
    /\ \/ /\ AttemptFails(Err("open", "denied", 0))
          /\ UNCHANGED <<tmp, origin>>
       \/ /\ ~OpenMustFail(resp.status, tmp)
          /\ tmp' = OpenTemp(resp.status, tmp)
          /\ origin' = IF resp.status = StatusPartialContent THEN origin ELSE <<>>
          /\ resumeFrom' = ResumeAfterOpen(resp.status, resumeFrom)
          /\ total' = TotalSize(resp.contentLength, resumeFrom')
          /\ downloaded' = resumeFrom'
          /\ lastDownloaded' = resumeFrom'
          /\ sinceUpdate' = 0
          /\ pc' = "read"
          /\ UNCHANGED <<err, log, range, resp, rest, readErr, startTmp, lastCb>>
    /\ UNCHANGED <<dest, client, attempt, lastErr, result, requests, renames>>
    /\ UNCHANGED callVars
    /\ UNCHANGED auxVars

\* the step as the attempt that runs takes it
Open == OpenAs(client)

\* what one Body.Read can return with `rst` still to come: n bytes and nil,
\* the last bytes (or none) and io.EOF, or some bytes (or none) and an error
ReadResults(rst) ==
    {[n |-> n, readErr |-> "nil"] : n \in 1..Min(MaxChunk, Len(rst))}
    \cup {[n |-> n, readErr |-> "EOF"] :
            n \in {m \in 0..MaxChunk : m = Len(rst)}}
    \cup {[n |-> n, readErr |-> e] :
            n \in 0..Min(MaxChunk, Len(rst)), e \in {"ueof", "badmac"}}

\* lines 170-196 (278-304): one iteration of the loop: read, write, report
ReadChunkAs(c) ==
    /\ pc = "read"
    /\ \E rd \in ReadResults(rest) :
         LET chunk == SubSeq(rest, 1, rd.n)
         IN  \/ /\ rd.n > 0
                /\ \E j \in 0..(rd.n - 1) :
                      /\ tmp' = WriteChunk(tmp, SubSeq(chunk, 1, j))
                      /\ origin' = Received(origin, j, client)
                /\ AttemptFails(Err("write", "nospace", 0))
             \/ /\ ReadFailed(rd.readErr)
                /\ tmp' = IF rd.n > 0 THEN WriteChunk(tmp, chunk) ELSE tmp
                /\ origin' = Received(origin, rd.n, client)
                /\ \E d \in ReadDelays :
                     AttemptFailsAfter(Err("read", rd.readErr, 0),
                                       Report(rd.n, sinceUpdate + d, downloaded + rd.n))
             \/ /\ ~ReadFailed(rd.readErr)
                /\ tmp' = IF rd.n > 0 THEN WriteChunk(tmp, chunk) ELSE tmp
                /\ origin' = Received(origin, rd.n, client)
                /\ rest' = SubSeq(rest, rd.n + 1, Len(rest))
                /\ readErr' = rd.readErr
                /\ downloaded' = downloaded + rd.n
                /\ \E d \in ReadDelays :
                     LET since == sinceUpdate + d
                         report == rd.n > 0 /\ ShouldReport(since, hasCallback)
                     IN  /\ lastCb' = Report(rd.n, since, downloaded')
                         /\ sinceUpdate' = IF report THEN 0 ELSE since
                         /\ lastDownloaded' = IF report THEN downloaded'
                                              ELSE lastDownloaded
                /\ pc' = IF rd.readErr = "nil" THEN pc ELSE "rename"
                /\ UNCHANGED <<err, log, resumeFrom, range, resp, startTmp, total>>
    /\ UNCHANGED <<dest, client, attempt, lastErr, result, requests, renames>>
    /\ UNCHANGED callVars
    /\ UNCHANGED auxVars

\* the step as the attempt that runs takes it
ReadChunk == ReadChunkAs(client)

\* mutant: a step after the rename can still fail the attempt
Commit_FailsAfterRename ==
    /\ pc = "rename"
    /\ tmp' = RenameTemp(tmp, dest).tmp
    /\ dest' = RenameTemp(tmp, dest).dest
    /\ renames' = renames + 1
    /\ \/ AttemptSucceeds /\ UNCHANGED attemptVars
       \/ AttemptFails(Err("rename", "denied", 0))
    /\ UNCHANGED <<client, attempt, lastErr, result, requests, origin>>
    /\ UNCHANGED callVars
    /\ UNCHANGED auxVars

\* mutant: a failed rename removes the temp file
Commit_CleansUpOnFailure ==
    /\ pc = "rename"
    /\ \/ /\ tmp' = RenameTemp(tmp, dest).tmp
          /\ dest' = RenameTemp(tmp, dest).dest
          /\ renames' = renames + 1
          /\ AttemptSucceeds
          /\ UNCHANGED attemptVars
       \/ /\ AttemptFails(Err("rename", "denied", 0))
          /\ tmp' = Absent
          /\ UNCHANGED <<dest, renames>>
    /\ UNCHANGED <<client, attempt, lastErr, result, requests, origin>>
    /\ UNCHANGED callVars
    /\ UNCHANGED auxVars

\* lines 198-205 (306-313): close, rename onto the destination
CommitAs(c) ==
    /\ pc = "rename"
    /\ \/ /\ tmp' = RenameTemp(tmp, dest).tmp
          /\ dest' = RenameTemp(tmp, dest).dest
          /\ renames' = renames + 1
          /\ AttemptSucceeds
          /\ UNCHANGED attemptVars
       \/ /\ AttemptFails(Err("rename", "denied", 0))
          /\ UNCHANGED <<dest, tmp, renames>>
    /\ UNCHANGED <<client, attempt, lastErr, result, requests, origin>>
    /\ UNCHANGED callVars
    /\ UNCHANGED auxVars

\* the step as the attempt that runs takes it
Commit == CommitAs(client)

Next ==
    \/ \E u \in Urls, cb \in BOOLEAN : Call(u, cb)
    \/ Prepare
    \/ Do
    \/ Open
    \/ ReadChunk
    \/ Commit
    \/ AfterVerified
    \/ AfterInsecure
    \/ NextIteration

Spec == Init /\ [][Next]_vars

\* ------------------------------------- the engine against a sound server
\* The same engine where nothing fails but the engine itself: the url is
\* well formed, the directory, the temp file and the rename are granted, a
\* request without Range is answered 200 with the whole content, a Range
\* below the content length 206 with the exact remainder, a Range at or
\* beyond it 416, and every body arrives whole with its length declared.
\* The temp file a call finds holds a prefix of the content, or is absent.
InitServed ==
    /\ Init
    /\ tmp \in {Absent} \cup {File(p) : p \in Prefixes(Content)}

ServedResponse(rg) ==
    IF rg = NoRange
    THEN [status |-> StatusOK, contentLength |-> ContentLen, body |-> Content]
    ELSE IF rg < ContentLen
    THEN [status |-> StatusPartialContent, contentLength |-> ContentLen - rg,
          body |-> SubSeq(Content, rg + 1, ContentLen)]
    ELSE [status |-> 416, contentLength |-> 0, body |-> <<>>]

\* the step's response is the sound server's
ServedWell ==
    IF StatusAccepted(ServedResponse(range).status)
    THEN pc' = "open" /\ resp' = ServedResponse(range)
    ELSE pc' = "afterVerified" /\ err' = Err("status", "", ServedResponse(range).status)

NextServed ==
    \/ \E u \in {x \in Urls : WellFormed(x)}, cb \in BOOLEAN : Call(u, cb)
    \/ Prepare /\ pc' = "do"
    \/ Do /\ ServedWell
    \/ Open /\ pc' = "read"
    \/ ReadChunk /\ pc' \in {"read", "rename"}
    \/ Commit /\ Succeeded(err') /\ pc' = "afterVerified"
    \/ AfterVerified
    \/ NextIteration

SpecServed == InitServed /\ [][NextServed]_vars

\* ------------------------------- the engine on the fallback's sources
\* The calls for which both attemptDownload and attemptDownloadInsecure
\* run: the url of a trusted source (and the malformed one, which no client
\* is asked for).
FallbackUrls == {"github", "bad"}

NextFallback ==
    \/ \E u \in FallbackUrls, cb \in BOOLEAN : Call(u, cb)
    \/ Prepare
    \/ Do
    \/ Open
    \/ ReadChunk
    \/ Commit
    \/ AfterVerified
    \/ AfterInsecure
    \/ NextIteration

SpecFallback == Init /\ [][NextFallback]_vars

\* a step of a call that has started; the running program takes it: each
\* operation of an attempt comes back (the deadline of line 123 bounds the
\* request and the body), the sleep ends, the loop goes on
EngineStep ==
    \/ Prepare
    \/ Do
    \/ Open
    \/ ReadChunk
    \/ Commit
    \/ AfterVerified
    \/ AfterInsecure
    \/ NextIteration

\* the calls with a callback to a trusted source, to a destination that
\* does not exist yet
InitRunning == Init /\ dest = Absent

NextRunning ==
    \/ Call("github", TRUE)
    \/ EngineStep

SpecRunning == InitRunning /\ [][NextRunning]_vars /\ WF_vars(EngineStep)

\* DownloadReleaseAsset (lines 401-416) and DownloadLatestReleaseAsset
\* (397-399, isNightly = FALSE): the url is built and DownloadWithProgress
\* called with it; ctx is not passed on
ReleaseUrl(isNightly) == IF isNightly THEN "nightly" ELSE "stable"
DownloadReleaseAsset(isNightly, cb) == Call(ReleaseUrl(isNightly), cb)

\* the caller cancels its context, before a call or while one runs
CancelCtx ==
    /\ ctx = "live"
    /\ ctx' = IF pc = "idle" THEN "cancelledBeforeCall" ELSE "cancelledDuringCall"
    /\ UNCHANGED notReleaseVars

NextRelease ==
    \/ \E isNightly \in BOOLEAN : DownloadReleaseAsset(isNightly, TRUE)
    \/ EngineStep
    \/ CancelCtx

\* the calls start with neither destination nor temp file on disk
InitRelease == InitRunning /\ tmp = Absent

SpecRelease == InitRelease /\ [][NextRelease]_vars

\* the download engine before any call, with no file on disk
DownloadAtRest ==
    /\ dest = Absent
    /\ tmp = Absent
    /\ pc = "idle"
    /\ client = "verified"
    /\ url = "github"
    /\ hasCallback = FALSE
    /\ attempt = 0
    /\ err = NilErr
    /\ lastErr = NilErr
    /\ result = NoResult
    /\ resumeFrom = 0
    /\ range = NoRange
    /\ resp = NoResp
    /\ rest = <<>>
    /\ readErr = "nil"
    /\ startTmp = Absent
    /\ total = 0
    /\ downloaded = 0
    /\ lastDownloaded = 0
    /\ sinceUpdate = 0
    /\ lastCb = NoCb
    /\ dest0 = Absent
    /\ log = <<>>
    /\ requests = 0
    /\ renames = 0
    /\ origin = <<>>

\* ------------------------------------------------------------ formatSpeed
\* rates formatSpeed is applied to: the multiples of 1 B/s, 1024 B/s and
\* 1024*1024 B/s up to MaxUnits, and their neighbours
SpeedOffsets == {-1, 0, 1, 100, 256, 500}
SpeedRates ==
    {r \in {u * m + j : u \in {1, 1024, 1024 * 1024}, m \in 0..MaxUnits,
                        j \in SpeedOffsets} : r >= 0}

\* fmt's decimal digits of a natural number
RECURSIVE FormatNat(_)
FormatNat(n) == IF n < 10 THEN <<Digit(n)>> ELSE FormatNat(n \div 10) \o <<Digit(n % 10)>>

\* a / b rounded to the nearest integer, a tie to the even one: the
\* rounding of fmt's %.1f at the last digit it prints
RoundHalfEven(a, b) ==
    LET q == a \div b
        r == a % b
    IN  IF 2 * r > b THEN q + 1
        ELSE IF 2 * r < b THEN q
        ELSE IF q % 2 = 0 THEN q ELSE q + 1

\* mutant: the value is cut after the first decimal instead of rounded
FormatTenths_Truncated(rate, unit) ==
    LET t == (rate * 10) \div unit
    IN  FormatNat(t \div 10) \o <<".">> \o <<Digit(t % 10)>>

\* fmt's %.1f of rate / unit
FormatTenths(rate, unit) ==
    LET t == RoundHalfEven(rate * 10, unit)
    IN  FormatNat(t \div 10) \o <<".">> \o <<Digit(t % 10)>>

TxtBps == <<" ","B","/","s">>
TxtKBps == <<" ","K","B","/","s">>
TxtMBps == <<" ","M","B","/","s">>

\* lines 376-384
formatSpeed(rate) ==
    IF rate < 1024 THEN FormatNat(rate) \o TxtBps
    ELSE IF rate < 1024 * 1024 THEN FormatTenths(rate, 1024) \o TxtKBps
    ELSE FormatTenths(rate, 1024 * 1024) \o TxtMBps

InitFormat ==
    /\ DownloadAtRest
    /\ TransfersAtRest
    /\ NewsAtRest
    /\ ExtraAtRest
    /\ bytesPerSec \in SpeedRates
    /\ speedStr = <<>>

\* a call of formatSpeed
FormatSpeed ==
    /\ speedStr = <<>>
    /\ speedStr' = formatSpeed(bytesPerSec)
    /\ UNCHANGED bytesPerSec
    /\ UNCHANGED notFormatVars

NextFormat == FormatSpeed

SpecFormat == InitFormat /\ [][NextFormat]_vars

\* --------------------------------------------- two concurrent transfers
\* Two DownloadWithProgress calls run at once, each with its own dest; a
\* step is one file or network operation of one of them.  A chunk written
\* by transfer t is the byte t.
InitTransfers ==
    /\ DownloadAtRest
    /\ FormatAtRest
    /\ NewsAtRest
    /\ ExtraAtRest
    /\ xdest \in [Transfers -> Dests]
    /\ \E old \in {Absent, File(OldContent)} :
          fs = [p \in Paths |-> IF p = TempOf(xdest[1]) THEN old ELSE Absent]
    /\ xpc = [t \in Transfers |-> "stat"]
    /\ xattempt = [t \in Transfers |-> 1]
    /\ xstatus = [t \in Transfers |-> 0]
    /\ xleft = [t \in Transfers |-> 0]
    /\ touched = [p \in Paths |-> {}]

\* an attempt of t returns an error: the next attempt, or the call returns
XferFails(t) ==
    IF xattempt[t] < maxRetries
    THEN /\ xattempt' = [xattempt EXCEPT ![t] = @ + 1]
         /\ xpc' = [xpc EXCEPT ![t] = "stat"]
    ELSE /\ xpc' = [xpc EXCEPT ![t] = "failed"]
         /\ UNCHANGED xattempt

\* lines 116-148: stat of the temp file, request, response
XferRequest(t) ==
    /\ xpc[t] = "stat"
    /\ \/ /\ \E st \in {StatusOK}
                    \cup (IF StatSize(fs[TempOf(xdest[t])]) > 0
                          THEN {StatusPartialContent} ELSE {}) :
                xstatus' = [xstatus EXCEPT ![t] = st]
          /\ xleft' = [xleft EXCEPT ![t] = MaxWrites]
          /\ xpc' = [xpc EXCEPT ![t] = "open"]
          /\ UNCHANGED xattempt
       \/ /\ XferFails(t)
          /\ UNCHANGED <<xstatus, xleft>>
    /\ UNCHANGED <<fs, xdest, touched>>
    /\ UNCHANGED notTransferVars

\* lines 150-160: the temp file is opened for append or created
XferOpen(t) ==
    /\ xpc[t] = "open"
    /\ LET path == TempOf(xdest[t])
       IN  IF OpenMustFail(xstatus[t], fs[path])
           THEN /\ XferFails(t)
                /\ UNCHANGED <<fs, touched>>
           ELSE /\ fs' = [fs EXCEPT ![path] = OpenTemp(xstatus[t], fs[path])]
                /\ touched' = [touched EXCEPT ![path] =
                                  IF xstatus[t] = StatusOK THEN @ \cup {t} ELSE @]
                /\ xpc' = [xpc EXCEPT ![t] = "read"]
                /\ UNCHANGED xattempt
    /\ UNCHANGED <<xdest, xstatus, xleft>>
    /\ UNCHANGED notTransferVars

\* lines 170-196: a chunk is read and written, or the stream ends, or fails
XferRead(t) ==
    /\ xpc[t] = "read"
    /\ LET path == TempOf(xdest[t])
       IN  \/ /\ xleft[t] > 0
              /\ fs' = [fs EXCEPT ![path] =
                           IF @.exists THEN WriteChunk(@, <<t>>) ELSE @]
              /\ touched' = [touched EXCEPT ![path] = @ \cup {t}]
              /\ xleft' = [xleft EXCEPT ![t] = @ - 1]
              /\ UNCHANGED <<xpc, xattempt>>
           \/ /\ xleft[t] = 0
              /\ xpc' = [xpc EXCEPT ![t] = "rename"]
              /\ UNCHANGED <<fs, touched, xleft, xattempt>>
           \/ /\ XferFails(t)
              /\ UNCHANGED <<fs, touched, xleft>>
    /\ UNCHANGED <<xdest, xstatus>>
    /\ UNCHANGED notTransferVars

\* lines 198-205: the temp file is renamed onto dest
XferRename(t) ==
    /\ xpc[t] = "rename"
    /\ LET path == TempOf(xdest[t])
       IN  IF fs[path].exists
           THEN /\ fs' = [fs EXCEPT ![path] = RenameTemp(fs[path], fs[xdest[t]]).tmp,
                                    ![xdest[t]] = RenameTemp(fs[path], fs[xdest[t]]).dest]
                /\ touched' = [touched EXCEPT ![path] = @ \cup {t},
                                              ![xdest[t]] = @ \cup {t}]
                /\ xpc' = [xpc EXCEPT ![t] = "done"]
                /\ UNCHANGED xattempt
           ELSE /\ XferFails(t)
                /\ UNCHANGED <<fs, touched>>
    /\ UNCHANGED <<xdest, xstatus, xleft>>
    /\ UNCHANGED notTransferVars

NextTransfers ==
    \E t \in Transfers :
        \/ XferRequest(t)
        \/ XferOpen(t)
        \/ XferRead(t)
        \/ XferRename(t)

SpecTransfers == InitTransfers /\ [][NextTransfers]_vars

\* ------------------------------------------------- NewsService.GetNews
\* the blog as published at two different times
Editions == {1, 2}
\* what FetchNews can return without an error: the first n items of an
\* edition, item i of edition e being 10 * e + i
Feeds == {[i \in 1..n |-> 10 * e + i] : e \in Editions, n \in 0..MaxItems}
Limits == 0..(MaxItems + 1)

InitNews ==
    /\ DownloadAtRest
    /\ FormatAtRest
    /\ TransfersAtRest
    /\ NewsAtRest
    /\ ExtraAtRest

\* time.Since
Since(t) == now - t

\* mutant: a non-empty cache never expires
CacheFresh_NoExpiry == Len(cache) > 0

\* line 140
CacheFresh == Since(cacheTime) < cacheTTL /\ Len(cache) > 0

\* lines 141-144
FromCache(limit) == IF Len(cache) > limit THEN SubSeq(cache, 1, limit) ELSE cache

\* mutant: a failed fetch always returns the error
OnFetchError_NoFallback == [items |-> <<>>, err |-> TRUE]

\* lines 149-155
OnFetchError ==
    IF Len(cache) > 0
    THEN [items |-> cache, err |-> FALSE]
    ELSE [items |-> <<>>, err |-> TRUE]

\* lines 138-162; outcome is what FetchNews returns when it is called
GetNews(limit, outcome) ==
    /\ IF CacheFresh
       THEN /\ newsRet' = [called |-> TRUE, limit |-> limit, at |-> now,
                           cacheWas |-> cache, timeWas |-> cacheTime,
                           fetch |-> "none", fetched |-> <<>>,
                           items |-> FromCache(limit), err |-> FALSE]
            /\ UNCHANGED <<cache, cacheTime>>
       ELSE IF outcome.err
       THEN /\ newsRet' = [called |-> TRUE, limit |-> limit, at |-> now,
                           cacheWas |-> cache, timeWas |-> cacheTime,
                           fetch |-> "err", fetched |-> <<>>,
                           items |-> OnFetchError.items, err |-> OnFetchError.err]
            /\ UNCHANGED <<cache, cacheTime>>
       ELSE /\ cache' = outcome.items
            /\ cacheTime' = now
            /\ newsRet' = [called |-> TRUE, limit |-> limit, at |-> now,
                           cacheWas |-> cache, timeWas |-> cacheTime,
                           fetch |-> "ok", fetched |-> outcome.items,
                           items |-> outcome.items, err |-> FALSE]
    /\ UNCHANGED now
    /\ UNCHANGED notNewsVars

\* time passes
Tick ==
    /\ now < MaxNow
    /\ now' = now + 1
    /\ UNCHANGED <<cache, cacheTime, newsRet>>
    /\ UNCHANGED notNewsVars

FetchOutcomes ==
    {[err |-> TRUE, items |-> <<>>]} \cup {[err |-> FALSE, items |-> f] : f \in Feeds}

NextNews ==
    \/ \E limit \in Limits, outcome \in FetchOutcomes : GetNews(limit, outcome)
    \/ Tick

SpecNews == InitNews /\ [][NextNews]_vars

\* the service against a server that returns at most the number of items
\* asked for (the limit parameter of the request, line 37)
HonestOutcomes(limit) == {o \in FetchOutcomes : Len(o.items) <= limit}

NextNewsHonest ==
    \/ \E limit \in Limits : \E outcome \in HonestOutcomes(limit) :
          GetNews(limit, outcome)
    \/ Tick

SpecNewsHonest == InitNews /\ [][NextNewsHonest]_vars

\* ------------------------------------------------------------- contains
\* contains is applied to every pair of strings of up to MaxStr characters
\* over a lower-case letter, its upper case and another letter
Alphabet == {"a", "A", "b"}
RECURSIVE StringsOf(_)
StringsOf(n) ==
    IF n = 0 THEN {<<>>}
    ELSE StringsOf(n - 1) \cup {Append(w, ch) : w \in StringsOf(n - 1), ch \in Alphabet}
Strings == StringsOf(MaxStr)

InitContains ==
    /\ DownloadAtRest
    /\ FormatAtRest
    /\ TransfersAtRest
    /\ NewsAtRest
    /\ SimpleAtRest
    /\ ReleaseAtRest
    /\ EnvAtRest
    /\ match \in {[hay |-> h, needle |-> n, found |-> <<>>] :
                     h \in Strings, n \in Strings}

\* a call of contains (lines 86-90)
Contains ==
    /\ match.found = <<>>
    /\ match' = [match EXCEPT !.found = <<contains(match.hay, match.needle)>>]
    /\ UNCHANGED notMatchVars

NextContains == Contains

SpecContains == InitContains /\ [][NextContains]_vars

\* ------------------------------------------------------------ DownloadFile
\* file.go lines 427-489.  The speed argument of progressCallback is left
\* out; the context reaches the call as an error of client.Do or Body.Read.
\* no progressCallback invocation yet
NoDfCb == [calls |-> 0, downloaded |-> 0, total |-> 0]

InitSimple ==
    /\ DownloadAtRest
    /\ FormatAtRest
    /\ TransfersAtRest
    /\ NewsAtRest
    /\ MatchAtRest
    /\ ReleaseAtRest
    /\ EnvAtRest
    /\ df \in {[dest |-> d, tmp |-> t, pc |-> "idle", url |-> "github",
                 hasCallback |-> FALSE, resp |-> NoResp, rest |-> <<>>,
                 downloaded |-> 0, cb |-> NoDfCb, ret |-> NilErr,
                 requests |-> 0, written |-> <<>>] :
                d \in {Absent, File(OldContent)}, t \in {Absent, File(OldContent)}}

\* the call d returns e
DfReturn(d, e) == [d EXCEPT !.ret = e, !.pc = "done"]

\* a call of DownloadFile(ctx, u, dest, cb)
DfCall(u, cb) ==
    /\ df.pc \in {"idle", "done"}
    /\ df' = [df EXCEPT !.pc = "start", !.url = u, !.hasCallback = cb,
                        !.resp = NoResp, !.rest = <<>>, !.downloaded = 0,
                        !.cb = NoDfCb, !.ret = NilErr, !.requests = 0,
                        !.written = <<>>]
    /\ UNCHANGED notSimpleVars

\* lines 429-439: the directory is made and the request built
DfPrepare ==
    /\ df.pc = "start"
    /\ \/ df' = DfReturn(df, Err("mkdir", "denied", 0))
       \/ ~WellFormed(df.url) /\ df' = DfReturn(df, Err("newreq", "noscheme", 0))
       \/ WellFormed(df.url) /\ df' = [df EXCEPT !.pc = "do"]
    /\ UNCHANGED notSimpleVars

\* mutant: every status is accepted
DfStatusAccepted_Any(status) == TRUE

\* line 445
DfStatusAccepted(status) == status = StatusOK

\* lines 441-447: the request is sent and the status looked at
DfDo ==
    /\ df.pc = "do"
    /\ LET sent == [df EXCEPT !.requests = @ + 1]
       IN  \/ \E e \in TransportErrors("verified") :
                df' = DfReturn(sent, Err("transport", e, 0))
           \/ \E r \in Responses(NoRange) :
                LET got == [sent EXCEPT !.resp = r, !.rest = r.body]
                IN  df' = IF DfStatusAccepted(r.status)
                          THEN [got EXCEPT !.pc = "create"]
                          ELSE DfReturn(got, Err("status", "", r.status))
    /\ UNCHANGED notSimpleVars

\* lines 449-453: os.Create makes the destination or empties it
DfCreate ==
    /\ df.pc = "create"
    /\ \/ df' = DfReturn(df, Err("open", "denied", 0))
       \/ df' = [df EXCEPT !.dest = File(<<>>), !.pc = "read"]
    /\ UNCHANGED notSimpleVars

\* lines 469-476: the callback, when there is one, after every chunk
DfReport(n, has, cb, d, t) ==
    IF n > 0 /\ has
    THEN [calls |-> cb.calls + 1, downloaded |-> d, total |-> t]
    ELSE cb

\* lines 460-486: one iteration of the loop
DfRead ==
    /\ df.pc = "read"
    /\ \E rd \in ReadResults(df.rest) :
         LET chunk == SubSeq(df.rest, 1, rd.n)
         IN  \/ /\ rd.n > 0
                /\ \E j \in 0..(rd.n - 1) :
                      df' = DfReturn(
                               [df EXCEPT
                                   !.dest = WriteChunk(@, SubSeq(chunk, 1, j)),
                                   !.written = @ \o SubSeq(chunk, 1, j)],
                               Err("write", "nospace", 0))
             \/ LET read ==
                        [df EXCEPT
                            !.dest = IF rd.n > 0 THEN WriteChunk(@, chunk) ELSE @,
                            !.written = @ \o chunk,
                            !.rest = SubSeq(@, rd.n + 1, Len(@)),
                            !.downloaded = @ + rd.n,
                            !.cb = DfReport(rd.n, df.hasCallback, @,
                                            df.downloaded + rd.n,
                                            df.resp.contentLength)]
                IN  df' = IF EndOfStream(rd.readErr) THEN DfReturn(read, NilErr)
                          ELSE IF rd.readErr # "nil"
                          THEN DfReturn(read, Err("read", rd.readErr, 0))
                          ELSE read
    /\ UNCHANGED notSimpleVars

NextSimple ==
    \/ \E u \in {"github", "bad"}, cb \in BOOLEAN : DfCall(u, cb)
    \/ DfPrepare
    \/ DfDo
    \/ DfCreate
    \/ DfRead

SpecSimple == InitSimple /\ [][NextSimple]_vars

\* --------------------------------------------------- instance directories
\* src/internal/env/env.go.  Paths and names are strings; filepath.Join of
\* a clean directory and a plain name puts a separator between them.
TxtAppDir == <<"/","a","p","p","/","H","y","P","r","i","s","m">>
TxtInstances == <<"i","n","s","t","a","n","c","e","s">>
TxtLatest == <<"l","a","t","e","s","t">>
TxtRelease == <<"r","e","l","e","a","s","e">>
TxtPreRelease == <<"p","r","e","-","r","e","l","e","a","s","e">>
TxtCustom == <<"/","x">>
Branches == {TxtRelease, TxtPreRelease}
Versions == 0..MaxVersion
\* the directories given to SetCustomInstanceDir: the empty string and one
\* directory
CustomDirs == {<<>>, TxtCustom}

Join(dir, name) == dir \o <<"/">> \o name

\* fmt's %d of a number that is not negative
RECURSIVE FormatInt(_)
FormatInt(n) ==
    IF n < 10 THEN <<Digit(n)>> ELSE FormatInt(n \div 10) \o <<Digit(n % 10)>>

\* fmt.Sscanf(s, "%d", &v) on a string without sign or leading space: the
\* leading digits are the number, and there must be one
IsDigit(ch) == \E d \in 0..9 : Digit(d) = ch
DigitValue(ch) == CHOOSE d \in 0..9 : Digit(d) = ch
RECURSIVE ScanDigits(_, _)
ScanDigits(s, acc) ==
    IF s = <<>> \/ ~IsDigit(Head(s)) THEN acc
    ELSE ScanDigits(Tail(s), 10 * acc + DigitValue(Head(s)))
Sscanf(s) ==
    IF s # <<>> /\ IsDigit(Head(s))
    THEN [ok |-> TRUE, v |-> ScanDigits(s, 0)]
    ELSE [ok |-> FALSE, v |-> 0]

\* lines 25-50: the application directory, which the calls do not change
GetDefaultAppDir == TxtAppDir

\* lines 119-124
GetInstancesDir ==
    IF env.customInstanceDir # <<>> THEN env.customInstanceDir
    ELSE Join(GetDefaultAppDir, TxtInstances)

\* mutant: version 0 is named like every other version
InstanceName_AlwaysVersioned(branch, version) ==
    branch \o <<"-", "v">> \o FormatInt(version)

\* lines 129-135
InstanceName(branch, version) ==
    IF version = 0 THEN TxtLatest
    ELSE branch \o <<"-", "v">> \o FormatInt(version)

\* lines 128-137
GetInstanceDir(branch, version) == Join(GetInstancesDir, InstanceName(branch, version))

\* lines 201-235: the instance directory exists and holds the game
IsVersionInstalled(branch, version) ==
    GetInstanceDir(branch, version) \in env.installed

\* os.ReadDir(instancesDir): the names of the directories in it
Entries(dir) ==
    {n \in {InstanceName(b, v) : b \in Branches, v \in Versions} :
        Join(dir, n) \in env.present}

\* lines 240-276, as the set of the versions in the list returned
GetInstalledVersions(branch) ==
    LET prefix == branch \o <<"-", "v">>
        entries == Entries(GetInstancesDir)
        latest == IF TxtLatest \in entries /\ IsVersionInstalled(branch, 0)
                  THEN {0} ELSE {}
        versioned ==
            {Sscanf(SubSeq(n, Len(prefix) + 1, Len(n))).v :
                n \in {e \in entries :
                        /\ Len(e) > Len(prefix)
                        /\ SubSeq(e, 1, Len(prefix)) = prefix
                        /\ Sscanf(SubSeq(e, Len(prefix) + 1, Len(e))).ok
                        /\ Sscanf(SubSeq(e, Len(prefix) + 1, Len(e))).v > 0
                        /\ IsVersionInstalled(
                              branch, Sscanf(SubSeq(e, Len(prefix) + 1, Len(e))).v)}}
    IN  latest \cup versioned

\* package env at start: customInstanceDir is the empty string
InitEnv ==
    /\ DownloadAtRest
    /\ FormatAtRest
    /\ TransfersAtRest
    /\ NewsAtRest
    /\ MatchAtRest
    /\ SimpleAtRest
    /\ ReleaseAtRest
    /\ env = [customInstanceDir |-> <<>>,
              given |-> [last |-> <<>>, lastNonEmpty |-> <<>>],
              present |-> {}, installed |-> {}, ret |-> NoEnvCall]

\* lines 114-116
SetCustomInstanceDir(dir) ==
    /\ env' = [env EXCEPT
                  !.customInstanceDir = dir,
                  !.given = [last |-> dir,
                             lastNonEmpty |-> IF dir # <<>> THEN dir
                                              ELSE @.lastNonEmpty]]
    /\ UNCHANGED notEnvVars

\* lines 160-177: the instance's folders are made
CreateInstanceFolders(branch, version) ==
    /\ Cardinality(env.present) < MaxDirs
    /\ env' = [env EXCEPT !.present = @ \cup {GetInstanceDir(branch, version)}]
    /\ UNCHANGED notEnvVars

\* the game is unpacked into an instance directory that exists
InstallGame(branch, version) ==
    /\ GetInstanceDir(branch, version) \in env.present
    /\ env' = [env EXCEPT !.installed = @ \cup {GetInstanceDir(branch, version)}]
    /\ UNCHANGED notEnvVars

\* a call of GetInstanceDir
CallGetInstanceDir(branch, version) ==
    /\ env' = [env EXCEPT
                  !.ret = [op |-> "GetInstanceDir", branch |-> branch,
                           version |-> version,
                           dir |-> GetInstanceDir(branch, version),
                           versions |-> {}]]
    /\ UNCHANGED notEnvVars

\* a call of GetInstalledVersions
CallGetInstalledVersions(branch) ==
    /\ env' = [env EXCEPT
                  !.ret = [op |-> "GetInstalledVersions", branch |-> branch,
                           version |-> 0, dir |-> <<>>,
                           versions |-> GetInstalledVersions(branch)]]
    /\ UNCHANGED notEnvVars

NextEnv ==
    \/ \E dir \in CustomDirs : SetCustomInstanceDir(dir)
    \/ \E b \in Branches, v \in Versions : CreateInstanceFolders(b, v)
    \/ \E b \in Branches, v \in Versions : InstallGame(b, v)
    \/ \E b \in Branches, v \in Versions : CallGetInstanceDir(b, v)
    \/ \E b \in Branches : CallGetInstalledVersions(b)

SpecEnv == InitEnv /\ [][NextEnv]_vars

\* ------------------------------------------------------------ properties
LogEvents == [i \in 1..Len(log) |-> log[i].ev]
AttemptReturned == pc \in {"afterVerified", "afterInsecure"}
Returned == pc = "done"
Committed == renames > 0 /\ err = NilErr /\ (AttemptReturned \/ Returned)
ResumeOffset == Len(startTmp.data)

\* the host of a URL: what lies between "https://" and the next "/"
AfterScheme(u) ==
    IF Len(u) >= Len(TxtScheme) /\ SubSeq(u, 1, Len(TxtScheme)) = TxtScheme
    THEN SubSeq(u, Len(TxtScheme) + 1, Len(u))
    ELSE <<>>
HostOf(u) ==
    LET s == AfterScheme(UrlString(u))
        slashes == {i \in 1..Len(s) : s[i] = "/"}
    IN  IF slashes = {} THEN s
        ELSE SubSeq(s, 1, (CHOOSE i \in slashes : \A j \in slashes : i <= j) - 1)
HostOnAllowList(u) ==
    \E domain \in trustedDomains :
        LET h == HostOf(u)
        IN  \/ h = domain
            \/ /\ Len(h) > Len(domain)
               /\ SubSeq(h, Len(h) - Len(domain), Len(h)) = <<".">> \o domain

\* C1: the destination is never written chunk by chunk.  Its only change is
\* the rename of the temp file after a clean end-of-stream (io.EOF), so it
\* is either as it was before the call or the whole temp file of an attempt
\* that finished.
C1_AtomicCommit ==
    [][/\ dest' # dest =>
            /\ pc = "rename"
            /\ readErr = "EOF"
            /\ tmp.exists
            /\ dest' = tmp
            /\ ~tmp'.exists
            /\ renames' = renames + 1
            /\ err' = NilErr
       /\ dest' # dest0' => renames' > 0 /\ log'[Len(log')].ok]_vars

C1_Witness ==
    /\ Committed
    /\ dest # dest0
    /\ ~tmp.exists
    /\ Len(log) > 1

\* C2: an attempt that finds the first K bytes of the content in the temp
\* file, 0 < K < total, sends Range: bytes=K-; when the server answers 206
\* with bytes[K:total] and the stream ends cleanly, the committed
\* destination is the whole content, whatever the chunks were.
C2_ResumeCorrect ==
    (/\ startTmp.exists
     /\ 0 < ResumeOffset
     /\ ResumeOffset < ContentLen
     /\ startTmp.data = SubSeq(Content, 1, ResumeOffset))
    => /\ pc \in {"do", "open", "read", "rename"} => range = ResumeOffset
       /\ (/\ Committed
           /\ resp.status = StatusPartialContent
           /\ resp.body = SubSeq(Content, ResumeOffset + 1, ContentLen))
          => range = ResumeOffset /\ dest = File(Content)

C2_Witness ==
    /\ Committed
    /\ startTmp = File(SubSeq(Content, 1, 1))
    /\ range = 1
    /\ resp.status = StatusPartialContent
    /\ resp.body = SubSeq(Content, 2, ContentLen)
    /\ dest = File(Content)

\* C3 as claimed: a call that returns the error has performed exactly 3
\* attempts, one delay between each two consecutive attempts, no delay after
\* the last, and the error names 3 attempts.
C3_ExactlyThreeAttempts ==
    result.status = "error" =>
        /\ LogEvents \in {<<a, "delay", b, "delay", c>> :
                            a, b, c \in {"verified", "insecure"}}
        /\ result.count = 3

\* C3 amended: a call that returns the error has performed exactly 3 verified
\* attempts with one delay between each two consecutive ones and none after
\* the last, and at most one insecure attempt more, right after the first
\* verified attempt and before the first delay; the error names 3 attempts.
C3_ThreeVerifiedAttempts ==
    result.status = "error" =>
        /\ LogEvents \in
              {<<"verified", "delay", "verified", "delay", "verified">>,
               <<"verified", "insecure", "delay", "verified", "delay", "verified">>}
        /\ \A i \in 1..Len(log) : log[i].ev # "delay" => ~log[i].ok
        /\ result.count = 3

C3_Witness ==
    /\ result.status = "error"
    /\ LogEvents = <<"verified", "insecure", "delay", "verified", "delay", "verified">>

\* C4: the insecure client is used only after a verified attempt of the call
\* failed with a certificate-classified error, and only for a URL whose host
\* is on the trusted-host allow-list.
C4_InsecureOnlyForTrustedHost ==
    /\ (client = "insecure" /\ pc = "start") =>
            /\ log = <<[ev |-> "verified", ok |-> FALSE]>>
            /\ isCertError(err)
    /\ client = "insecure" => HostOnAllowList(url)

\* C5 as claimed: whenever a verified attempt, any of the loop, fails with a
\* certificate-classified error and the URL matches the allow-list, the next
\* step of the engine is the insecure attempt, with no delay before it.
C5_FallbackAfterAnyAttempt ==
    [][(/\ pc = "afterVerified"
        /\ err # NilErr
        /\ isCertError(err)
        /\ isTrustedSource(url))
       => (pc' = "start" /\ client' = "insecure" /\ log' = log)]_vars

\* C5 amended: whenever the first verified attempt of a call fails with a
\* certificate-classified error and the URL matches the allow-list, the next
\* step of the engine is the insecure attempt, with no delay before it.
C5_FallbackAfterFirstAttempt ==
    [][(/\ pc = "afterVerified"
        /\ attempt = 1
        /\ err # NilErr
        /\ isCertError(err)
        /\ isTrustedSource(url))
       => (pc' = "start" /\ client' = "insecure" /\ log' = log)]_vars

C5_Witness ==
    /\ pc = "start"
    /\ client = "insecure"
    /\ log = <<[ev |-> "verified", ok |-> FALSE]>>
    /\ isCertError(err)
    /\ isTrustedSource(url)

\* C6: when the call returns the error, no rename onto the destination has
\* happened in it and the destination is as it was before the call.
C6_DestUntouchedOnFailure ==
    result.status = "error" => renames = 0 /\ dest = dest0

C6_Witness ==
    /\ result.status = "error"
    /\ dest = File(OldContent)
    /\ tmp.exists
    /\ Len(tmp.data) > 0
    /\ lastErr.kind = "rename"

\* C7: when the temp file held K > 0 bytes, Range: bytes=K- was sent and the
\* server answers 200 with the whole content, the temp file is truncated and
\* holds exactly the bytes read from this response, and the destination
\* committed after a clean end-of-stream is the whole content.
C7_FullRestart ==
    (/\ ResumeOffset > 0
     /\ range = ResumeOffset
     /\ resp.status = StatusOK)
    => /\ pc \in {"read", "rename"} =>
            /\ resumeFrom = 0
            /\ tmp = File(SubSeq(resp.body, 1, Len(resp.body) - Len(rest)))
       /\ (Committed /\ resp.body = Content) => dest = File(Content)

C7_Witness ==
    /\ Committed
    /\ startTmp = File(SubSeq(Content, 1, 2))
    /\ range = 2
    /\ resp.status = StatusOK
    /\ resp.body = Content
    /\ dest = File(Content)

\* C8: when the call returns success, the destination exists and its size is
\* the total the successful attempt computed (content length plus resume
\* offset).
C8_SizeEqualsTotal ==
    result.status = "ok" => dest.exists /\ Len(dest.data) = total

\* C9: once an attempt, verified or insecure, has succeeded, the next step is
\* the return of success: no further attempt, request or delay; and nothing
\* follows the return.
C9_SuccessEndsCall ==
    [][/\ (AttemptReturned /\ err = NilErr) =>
            /\ pc' = "done"
            /\ result' = Success
            /\ log' = log
            /\ requests' = requests
            /\ renames' = renames
       /\ ~Returned]_vars

C9_Witness ==
    /\ Returned
    /\ result.status = "ok"
    /\ log[Len(log)] = [ev |-> "insecure", ok |-> TRUE]

\* C10: the call returns an error only when all 3 verified attempts have
\* failed; the error names 3 attempts and wraps the error of the last attempt
\* performed.
C10_ExhaustionError ==
    result.status = "error" =>
        /\ result.count = 3
        /\ Cardinality({i \in 1..Len(log) : log[i].ev = "verified"}) = 3
        /\ \A i \in 1..Len(log) : log[i].ev # "delay" => ~log[i].ok
        /\ log[Len(log)].ev = "verified"
        /\ err # NilErr
        /\ result.cause = err

C10_Witness ==
    /\ result.status = "error"
    /\ result.cause.kind = "read"
    /\ Len(log) = 6

\* the bytes of the response an attempt has read and written so far
StreamedSoFar == SubSeq(resp.body, 1, Len(resp.body) - Len(rest))
\* the step in which an attempt returns a read error other than io.EOF
ReadAbort == pc = "read" /\ pc' \in {"afterVerified", "afterInsecure"} /\ err'.kind = "read"
\* the temp file is there and holds `start` and the first bytes of the
\* response, up to and including those of the read that failed
KeptAfterAbort(start) ==
    /\ tmp'.exists
    /\ \E n \in 0..Len(rest) :
          tmp'.data = start \o SubSeq(resp.body, 1, Len(StreamedSoFar) + n)
\* between two attempts the temp file is not touched, and the next attempt
\* takes its size as the resume offset and asks for the bytes from there on
NextAttemptResumes ==
    /\ pc \in {"afterVerified", "afterInsecure", "sleep"} => tmp' = tmp
    /\ (pc = "start" /\ pc' = "do") =>
          /\ resumeFrom' = (IF tmp.exists THEN Len(tmp.data) ELSE 0)
          /\ range' = (IF resumeFrom' > 0 THEN resumeFrom' ELSE NoRange)
          /\ tmp' = tmp

\* C11 as claimed: an attempt that aborts on a read error other than io.EOF
\* leaves the temp file holding what the attempt found in it plus the bytes
\* it wrote, and the next attempt resumes from that file's size.
C11_StartContentKept ==
    [][/\ ReadAbort => KeptAfterAbort(startTmp.data)
       /\ NextAttemptResumes]_vars

\* C11 amended: an attempt that aborts on a read error other than io.EOF
\* leaves the temp file holding what it held when the attempt opened it
\* (what the attempt found on 206, nothing on 200, which truncates) plus
\* the bytes the attempt wrote, and the next attempt resumes from that
\* file's size.
C11_OpenedContentKept ==
    [][/\ ReadAbort =>
            KeptAfterAbort(IF resp.status = StatusPartialContent
                           THEN startTmp.data ELSE <<>>)
       /\ NextAttemptResumes]_vars

C11_Witness ==
    /\ pc = "do"
    /\ err.kind = "read"
    /\ log = <<[ev |-> "verified", ok |-> FALSE]>>
    /\ tmp = File(SubSeq(Content, 1, 2))
    /\ resumeFrom = 2
    /\ range = 2

\* what the temp file held when the attempt opened it for writing
OpenedContent == IF resp.status = StatusPartialContent THEN startTmp.data ELSE <<>>
IsPrefix(p, s) == Len(p) <= Len(s) /\ SubSeq(s, 1, Len(p)) = p

AttemptFailure ==
    /\ pc \in {"start", "do", "open", "read", "rename"}
    /\ pc' \in {"afterVerified", "afterInsecure"}
    /\ err' # NilErr

\* C13: no failing attempt removes the temp file.  A failure of the
\* directory creation, of the request construction, of the transport, of
\* the status check, of the open or of the rename leaves the temp file
\* exactly as it was; a failure while streaming (read or write error)
\* leaves the temp file in place with everything written to it so far; and
\* nothing touches it between the attempts.
C13_TempPersists ==
    [][/\ AttemptFailure =>
            /\ tmp.exists => tmp'.exists
            /\ err'.kind \in {"mkdir", "newreq", "transport", "status", "open", "rename"}
                  => tmp' = tmp
            /\ err'.kind \in {"read", "write"}
                  => tmp'.exists /\ IsPrefix(tmp.data, tmp'.data)
       /\ (pc \in {"afterVerified", "afterInsecure"} /\ err # NilErr) => tmp' = tmp
       /\ pc = "sleep" => tmp' = tmp]_vars

C13_Witness ==
    /\ pc = "afterVerified"
    /\ err.kind = "rename"
    /\ attempt = 2
    /\ tmp = File(Content)
    /\ dest = dest0

\* C14: every invocation of the callback is made at least 100 ms after
\* lastUpdate, which is the time of the attempt's previous invocation or,
\* for the first one, the start of streaming, whatever number of chunks was
\* read in between; without a callback nothing is invoked.
C14_Throttled ==
    /\ lastCb.called =>
          /\ hasCallback
          /\ lastCb.calls >= 1
          /\ lastCb.since >= UpdateIntervalMs
    /\ ~hasCallback => lastCb = NoCb
    /\ (hasCallback /\ pc = "read") => sinceUpdate < UpdateIntervalMs

C14_Witness ==
    /\ pc = "read"
    /\ hasCallback
    /\ lastCb.calls = 2
    /\ lastCb.downloaded = 3
    /\ lastCb.since = UpdateIntervalMs

\* C15: when a call with a callback has returned success, the downloaded
\* argument of the last callback invocation is the size of the file at the
\* destination.
C15_FinalReportComplete ==
    (result.status = "ok" /\ hasCallback /\ lastCb.called)
        => lastCb.downloaded = Len(dest.data)

\* a progress value lies in [0, 100 x progressWeight]
InRange(p, w) ==
    /\ ~p.inf
    /\ p.num * p.den >= 0
    /\ IF p.den > 0 THEN p.num <= w * p.den ELSE p.num >= w * p.den

\* C16: the progress value of every callback invocation lies in
\* [0, 100 x progressWeight], for 200 and 206, declared and unknown content
\* length, every resume offset and every number of bytes delivered.
C16_ProgressInRange ==
    lastCb.called =>
        \A w \in Weights :
            InRange(ProgressPercent(lastCb.downloaded, lastCb.total, w), w)

\* the same for the responses that declare their length
ProgressInRangeWhenDeclared ==
    (lastCb.called /\ lastCb.total >= lastCb.downloaded) =>
        \A w \in Weights :
            InRange(ProgressPercent(lastCb.downloaded, lastCb.total, w), w)

\* the number a string of decimal digits denotes
RECURSIVE ParseNat(_)
ParseNat(ds) ==
    IF ds = <<>> THEN 0
    ELSE 10 * ParseNat(SubSeq(ds, 1, Len(ds) - 1))
         + (CHOOSE d \in 0..9 : Digit(d) = ds[Len(ds)])
IsDigits(ds) == Len(ds) > 0 /\ \A i \in 1..Len(ds) : \E d \in 0..9 : Digit(d) = ds[i]
EndsWith(s, suffix) ==
    Len(s) >= Len(suffix) /\ SubSeq(s, Len(s) - Len(suffix) + 1, Len(s)) = suffix
\* the text before the unit
Number(s, suffix) == SubSeq(s, 1, Len(s) - Len(suffix))
\* num is "W.D" and W.D is rate / unit rounded to one decimal
OneDecimalOf(num, rate, unit) ==
    /\ Len(num) >= 3
    /\ num[Len(num) - 1] = "."
    /\ IsDigits(SubSeq(num, 1, Len(num) - 2))
    /\ IsDigits(<<num[Len(num)]>>)
    /\ (Len(num) > 3 => num[1] # "0")
    /\ LET tenths == 10 * ParseNat(SubSeq(num, 1, Len(num) - 2))
                        + ParseNat(<<num[Len(num)]>>)
           diff == rate * 10 - tenths * unit
       IN  -unit <= 2 * diff /\ 2 * diff <= unit

\* C17: formatSpeed of a non-negative integer rate is the rate itself with
\* no decimals and " B/s" below 1024, rate/1024 with one decimal and " KB/s"
\* below 1024*1024, and rate/1024^2 with one decimal and " MB/s" from there
\* on; 500 gives "500 B/s", 2048 gives "2.0 KB/s" and 5*1024*1024 gives
\* "5.0 MB/s".
C17_SpeedFormat ==
    speedStr # <<>> =>
        /\ bytesPerSec < 1024 =>
              /\ EndsWith(speedStr, TxtBps)
              /\ IsDigits(Number(speedStr, TxtBps))
              /\ ParseNat(Number(speedStr, TxtBps)) = bytesPerSec
        /\ (1024 <= bytesPerSec /\ bytesPerSec < 1024 * 1024) =>
              /\ EndsWith(speedStr, TxtKBps)
              /\ OneDecimalOf(Number(speedStr, TxtKBps), bytesPerSec, 1024)
        /\ bytesPerSec >= 1024 * 1024 =>
              /\ EndsWith(speedStr, TxtMBps)
              /\ OneDecimalOf(Number(speedStr, TxtMBps), bytesPerSec, 1024 * 1024)
        /\ bytesPerSec = 500 => speedStr = <<"5","0","0"," ","B","/","s">>
        /\ bytesPerSec = 2048 => speedStr = <<"2",".","0"," ","K","B","/","s">>
        /\ bytesPerSec = 5 * 1024 * 1024 =>
              speedStr = <<"5",".","0"," ","M","B","/","s">>

C17_Witness ==
    /\ bytesPerSec = 5 * 1024 * 1024
    /\ speedStr = <<"5",".","0"," ","M","B","/","s">>

\* no file is written, truncated or renamed by both transfers
Isolated == \A p \in Paths : Cardinality(touched[p]) <= 1
\* a file holds only what was there before and bytes of the one transfer
\* whose dest or temp file it is
OwnBytesOnly ==
    \A t \in Transfers : \A p \in {xdest[t], TempOf(xdest[t])} :
        \A i \in 1..Len(fs[p].data) : fs[p].data[i] \in {0, t}

\* C18 as claimed: two concurrent calls with different destination paths
\* never write, truncate or rename the same file.
C18_IsolatedWhenDestsDiffer ==
    xdest[1] # xdest[2] => Isolated

\* C18 amended: two concurrent calls with different destination paths,
\* neither of which is the other's temp path (dest + ".tmp"), never write,
\* truncate or rename the same file, and each file holds bytes of its own
\* transfer only.
C18_IsolatedWhenPathsDisjoint ==
    (/\ xdest[1] # xdest[2]
     /\ xdest[1] # TempOf(xdest[2])
     /\ xdest[2] # TempOf(xdest[1]))
    => Isolated /\ OwnBytesOnly

C18_Witness ==
    /\ xdest[1] = <<"a">>
    /\ xdest[2] = <<"b">>
    /\ xpc = [t \in Transfers |-> "done"]
    /\ fs[<<"a">>] = File(<<0, 1>>)
    /\ fs[<<"b">>] = File(<<2>>)
    /\ touched[<<"a">>] = {1}
    /\ touched[<<"b", ".tmp">>] = {2}

\* the cache a call found was non-empty and younger than the TTL
FoundFresh(r) == r.at - r.timeWas < cacheTTL /\ Len(r.cacheWas) > 0

\* C19: a GetNews call performs no fetch exactly when it finds the cache
\* non-empty and younger than 5 minutes, and then returns the first
\* min(limit, len(cache)) cached items and leaves the cache alone;
\* otherwise it fetches, and after a successful fetch the cache is the
\* fetched list, the cache time is the time of the call and the fetched
\* list is returned.
C19_CacheOrFetch ==
    newsRet.called =>
        /\ newsRet.fetch = "none" <=> FoundFresh(newsRet)
        /\ newsRet.fetch = "none" =>
              /\ newsRet.items = SubSeq(newsRet.cacheWas, 1,
                                        Min(newsRet.limit, Len(newsRet.cacheWas)))
              /\ ~newsRet.err
              /\ cache = newsRet.cacheWas
              /\ cacheTime = newsRet.timeWas
        /\ newsRet.fetch = "ok" =>
              /\ cache = newsRet.fetched
              /\ cacheTime = newsRet.at
              /\ newsRet.items = newsRet.fetched
              /\ ~newsRet.err

C19_Witness ==
    /\ newsRet.called
    /\ newsRet.fetch = "none"
    /\ Len(newsRet.cacheWas) = 2
    /\ newsRet.limit = 1
    /\ Len(newsRet.items) = 1
    /\ newsRet.at - newsRet.timeWas = cacheTTL - 1

\* C20: a GetNews call whose fetch fails returns the whole cache and no
\* error when the cache is non-empty, and leaves the cache and its time as
\* they were; an error is returned only by a failed fetch that found the
\* cache empty.
C20_StaleFallback ==
    newsRet.called =>
        /\ (newsRet.fetch = "err" /\ Len(newsRet.cacheWas) > 0) =>
              /\ newsRet.items = newsRet.cacheWas
              /\ ~newsRet.err
        /\ newsRet.fetch = "err" =>
              /\ cache = newsRet.cacheWas
              /\ cacheTime = newsRet.timeWas
        /\ newsRet.err <=> (newsRet.fetch = "err" /\ Len(newsRet.cacheWas) = 0)

C20_Witness ==
    /\ newsRet.called
    /\ newsRet.fetch = "err"
    /\ Len(newsRet.cacheWas) = 2
    /\ newsRet.items = newsRet.cacheWas
    /\ ~newsRet.err
    /\ newsRet.at - newsRet.timeWas = cacheTTL

\* the attempt that is running, if one is
InAttempt == pc \in {"start", "do", "open", "read", "rename"}
InsecureAttempts ==
    Cardinality({i \in 1..Len(log) : log[i].ev = "insecure"})
        + (IF InAttempt /\ client = "insecure" THEN 1 ELSE 0)
VerifiedAttempts ==
    Cardinality({i \in 1..Len(log) : log[i].ev = "verified"})
        + (IF InAttempt /\ client = "verified" THEN 1 ELSE 0)

\* C21: a call makes at most one insecure attempt; the loop counter does not
\* advance over it (it runs, and returns, with attempt = 1); after its
\* failure come the delay and the second verified attempt, as after any
\* failure; each attempt sends at most one request, so the call sends at
\* most 3 + 1 = 4.
C21_AtMostOneInsecure ==
    /\ InsecureAttempts <= 1
    /\ VerifiedAttempts <= maxRetries
    /\ client = "insecure" /\ (InAttempt \/ pc = "afterInsecure") => attempt = 1
    /\ \E full \in {<<"verified", "delay", "verified", "delay", "verified">>,
                    <<"verified", "insecure", "delay", "verified", "delay",
                      "verified">>} :
          IsPrefix(LogEvents, full)
    /\ (pc = "start" /\ Len(log) > 0 /\ log[Len(log)].ev = "delay") =>
            client = "verified"
    /\ requests <= VerifiedAttempts + InsecureAttempts
    /\ requests <= maxRetries + 1

C21_Witness ==
    /\ Returned
    /\ result.status = "error"
    /\ requests = maxRetries + 1
    /\ LogEvents = <<"verified", "insecure", "delay", "verified", "delay", "verified">>
    /\ log[2].ok = FALSE

\* the step in which an attempt returns the status error
StatusFailure == pc = "do" /\ pc' \in {"afterVerified", "afterInsecure"} /\ err'.kind = "status"

\* C22: an attempt goes past the status check only with 200 or 206; with any
\* other status it returns an error whose text carries the code, and up to
\* and including that return the temp file is as the attempt found it, the
\* destination is unchanged, nothing was renamed and the callback was not
\* invoked.
C22_UnexpectedStatus ==
    [][/\ (pc = "do" /\ pc' = "open") =>
            resp'.status \in {StatusOK, StatusPartialContent}
       /\ StatusFailure =>
            /\ err'.code \notin {StatusOK, StatusPartialContent}
            /\ contains(ErrorText(err'), FormatStatus(err'.code))
            /\ tmp = startTmp
            /\ tmp' = tmp
            /\ dest' = dest
            /\ renames' = renames
            /\ lastCb = NoCb
            /\ lastCb' = NoCb]_vars

C22_Witness ==
    /\ pc = "afterVerified"
    /\ err = Err("status", "", 416)
    /\ tmp = File(Content)
    /\ dest = dest0
    /\ renames = 0
    /\ lastCb = NoCb
    /\ hasCallback

\* the attempt is streaming or has streamed its response
Streaming == pc \in {"read", "rename"} \/ (Succeeded(err) /\ (AttemptReturned \/ Returned))
\* the offset the response's bytes are appended at
EffectiveOffset == IF resp.status = StatusPartialContent THEN StatSize(startTmp) ELSE 0

\* C23: once the temp file is open, total is the response's content length
\* plus the size the temp file had for a 206 and the content length alone
\* for a 200, whatever offset the request carried; downloaded starts at the
\* same offset and counts the bytes streamed; every callback invocation is
\* given that total.
C23_TotalAfterReset ==
    Streaming =>
        /\ resumeFrom = EffectiveOffset
        /\ total = resp.contentLength + EffectiveOffset
        /\ resp.status = StatusOK => total = resp.contentLength
        /\ downloaded = EffectiveOffset + Len(StreamedSoFar)
        /\ lastCb.called => lastCb.total = total

C23_Witness ==
    /\ pc = "read"
    /\ resp.status = StatusOK
    /\ range = 2
    /\ resp.contentLength = ContentLen
    /\ total = ContentLen
    /\ lastCb.called
    /\ lastCb.total = ContentLen

\* the request of the running attempt has been built
RequestBuilt == pc \in {"do", "open", "read", "rename"}

\* C24: the request carries a Range header exactly when the attempt found
\* the temp file with a size above 0, and the header's offset is that size;
\* with no temp file or an empty one the request carries none.
C24_RangeRule ==
    RequestBuilt =>
        /\ range # NoRange <=> (startTmp.exists /\ Len(startTmp.data) > 0)
        /\ range # NoRange => range = Len(startTmp.data)
        /\ (~startTmp.exists \/ startTmp.data = <<>>) => range = NoRange

C24_Witness ==
    /\ pc = "do"
    /\ Len(log) > 0
    /\ startTmp = File(SubSeq(Content, 1, 2))
    /\ range = 2

FailureKinds == {"mkdir", "newreq", "transport", "status", "open", "write", "read", "rename"}
\* the one failure the loop treats on its own
FallbackCase ==
    pc = "afterVerified" /\ attempt = 1 /\ isCertError(err) /\ isTrustedSource(url)

\* C25: what the loop does after a failed attempt depends on the loop
\* counter alone, never on the kind of the failure, the insecure fallback
\* apart: the error is remembered, the counter advances by one, the delay
\* is taken exactly when the counter was below 3, and then the next verified
\* attempt starts; from 3 the call returns the error.
C25_UniformRetry ==
    [][/\ (AttemptReturned /\ err # NilErr) =>
            /\ err.kind \in FailureKinds
            /\ lastErr' = err
            /\ attempt' = attempt
            /\ log' = log
            /\ result' = result
            /\ IF FallbackCase
               THEN pc' = "start" /\ client' = "insecure"
               ELSE pc' = "sleep"
       /\ pc = "sleep" =>
            /\ lastErr = err
            /\ err.kind \in FailureKinds
            /\ attempt' = attempt + 1
            /\ IF attempt < maxRetries
               THEN /\ log' = Append(log, [ev |-> "delay", ok |-> TRUE])
                    /\ pc' = "start"
                    /\ client' = "verified"
                    /\ result' = result
               ELSE /\ log' = log
                    /\ pc' = "done"
                    /\ result' = [status |-> "error", count |-> maxRetries,
                                  cause |-> err]]_vars

\* the request of the first attempt ran into the deadline and the loop goes
\* on to the delay
C25_Witness ==
    /\ pc = "sleep"
    /\ attempt = 1
    /\ err = Err("transport", "deadline", 0)
    /\ lastErr = err
    /\ isTrustedSource(url)
    /\ log = <<[ev |-> "verified", ok |-> FALSE]>>

\* the rename of t is about to fail: its temp file is not there
RenameMustFail(t) == xpc[t] = "rename" /\ ~fs[TempOf(xdest[t])].exists
\* t has returned success and its destination holds a byte t did not write
ForeignAtDest(t) ==
    /\ xpc[t] = "done"
    /\ \E i \in 1..Len(fs[xdest[t]].data) : fs[xdest[t]].data[i] \notin {0, t}

\* C26: two concurrent calls to one destination work on one temp path, and
\* nothing keeps their steps apart: a rename that finds no temp file, and a
\* destination that holds bytes of the other call when a call has returned
\* success, occur (C26_Witness) and occur only between calls whose paths
\* coincide; the temp file a rename misses was renamed by the other call.
C26_SameDestRace ==
    /\ xdest[1] = xdest[2] => TempOf(xdest[1]) = TempOf(xdest[2])
    /\ \A t \in Transfers :
          LET o == CHOOSE u \in Transfers : u # t
          IN  /\ RenameMustFail(t) =>
                    /\ xdest[o] = xdest[t]
                    /\ o \in touched[xdest[t]]
                    /\ xpc[o] = "done"
              /\ ForeignAtDest(t) =>
                    \/ xdest[o] = xdest[t]
                    \/ xdest[o] = TempOf(xdest[t])
                    \/ xdest[t] = TempOf(xdest[o])

\* both calls resumed the same temp file with a 206 and appended to it; the
\* first has returned success with the second's byte in the destination, and
\* the second is about to rename a temp file that is gone
C26_Witness ==
    /\ xdest[1] = <<"a">>
    /\ xdest[2] = <<"a">>
    /\ xstatus = [t \in Transfers |-> StatusPartialContent]
    /\ ForeignAtDest(1)
    /\ fs[<<"a">>] = File(<<0, 1, 2>>)
    /\ RenameMustFail(2)

\* the call has committed the destination by a verified attempt
CommittedVerified == Committed /\ client = "verified" /\ dest.exists

\* C27: every byte of a destination committed by a verified attempt was
\* received over the verified transport during the call.
C27_CommittedBytesVerified ==
    CommittedVerified =>
        /\ Len(origin) = Len(dest.data)
        /\ \A i \in 1..Len(origin) : origin[i] = "verified"

\* the path of C27: the insecure attempt streamed bytes and failed, and the
\* second, verified attempt resumed after them and committed
InsecureBytesCommitted ==
    /\ CommittedVerified
    /\ Returned
    /\ result = Success
    /\ LogEvents = <<"verified", "insecure", "delay", "verified">>
    /\ resp.status = StatusPartialContent
    /\ dest = File(Content)
    /\ origin = <<"insecure", "insecure", "verified">>

\* C28: against the sound server a call that has returned has returned
\* success, with the whole content at the destination and no temp file,
\* whatever prefix of the content, the whole included, the temp file held
\* when the call started.
C28_SucceedsFromEveryTemp ==
    Returned =>
        /\ result = Success
        /\ dest = File(Content)
        /\ ~tmp.exists

\* the same for every temp file but the complete one
SucceedsFromPartialTemp ==
    (Returned /\ tmp # File(Content)) =>
        /\ result = Success
        /\ dest = File(Content)
        /\ ~tmp.exists

\* the call that found the complete temp file has failed on 416 three times
CompleteTempRejected ==
    /\ Returned
    /\ result = Exhausted(Err("status", "", 416))
    /\ tmp = File(Content)
    /\ dest = dest0
    /\ requests = maxRetries
    /\ client = "verified"

\* the step invokes the callback
Invocation == pc = "read" /\ lastCb'.called /\ lastCb'.calls = lastCb.calls + 1

\* C29: at every invocation of the callback the downloaded argument is the
\* size of the temp file, which holds what it held when opened and the
\* bytes of the response written so far, the chunk just read included; it
\* is above the argument of the attempt's previous invocation and above the
\* resume offset.
C29_ProgressReflectsDisk ==
    [][Invocation =>
         /\ tmp'.exists
         /\ lastCb'.downloaded = Len(tmp'.data)
         /\ tmp'.data = OpenedContent
                          \o SubSeq(resp.body, 1, lastCb'.downloaded - EffectiveOffset)
         /\ Len(tmp'.data) > Len(tmp.data)
         /\ lastCb.called => lastCb'.downloaded > lastCb.downloaded
         /\ lastCb'.downloaded > EffectiveOffset
         /\ EffectiveOffset = resumeFrom]_vars

C29_Witness ==
    /\ pc = "read"
    /\ resp.status = StatusPartialContent
    /\ startTmp = File(SubSeq(Content, 1, 1))
    /\ lastCb.calls = 2
    /\ lastCb.downloaded = ContentLen
    /\ tmp = File(Content)

\* a step of an attempt as function c takes it
AttemptStepAs(c) ==
    \/ PrepareAs(c)
    \/ DoAs(c)
    \/ OpenAs(c)
    \/ ReadChunkAs(c)
    \/ CommitAs(c)
\* the one outcome only one of the clients can produce: the certificate is
\* rejected
CertificateRejected ==
    pc = "do" /\ err'.kind = "transport" /\ err'.inner = "x509"

FallbackTaken ==
    \/ client = "insecure"
    \/ \E i \in 1..Len(log) : log[i].ev = "insecure"

\* C31: outside the fallback the two versions of DownloadWithProgress take
\* the same steps.  The attempts and the delay are the same text in both;
\* whenever an attempt has returned and it is not the first attempt failing
\* with a certificate-classified error on a trusted source, the step of
\* file.go is the step of the older version: same result or same remembered
\* error, on to the same delay, no file touched; and in a call without such
\* a failure only the verified client ever runs.
C31_SameOutsideFallback ==
    [][/\ (pc = "afterVerified" /\ ~FallbackCase) => OldAfterAttempt
       /\ FallbackTaken' =>
            \/ FallbackTaken
            \/ FallbackCase]_vars

\* a certificate-classified failure on a source that is not trusted: three
\* verified attempts, two delays, the error, as in the older version
C31_Witness ==
    /\ Returned
    /\ url = "plain"
    /\ result = Exhausted(Err("transport", "x509", 0))
    /\ LogEvents = <<"verified", "delay", "verified", "delay", "verified">>
    /\ ~FallbackTaken

Delays == Cardinality({i \in 1..Len(log) : log[i].ev = "delay"})

\* C32: a call that has started returns, whatever fails on the way, and a
\* call never makes more than 3 verified attempts, 1 insecure attempt and 2
\* delays.
C32_Terminates ==
    /\ [](VerifiedAttempts <= maxRetries /\ InsecureAttempts <= 1
            /\ Delays <= maxRetries - 1)
    /\ (pc # "idle") ~> Returned

C32_Witness ==
    /\ Returned
    /\ result.status = "error"
    /\ lastErr.kind = "rename"
    /\ VerifiedAttempts = maxRetries
    /\ InsecureAttempts = 1
    /\ Delays = maxRetries - 1

\* sub occurs in s: at some position of s the next Len(sub) characters
\* are sub
Occurs(sub, s) ==
    \E i \in 0..(Len(s) - Len(sub)) : SubSeq(s, i + 1, i + Len(sub)) = sub
ErrorsMatched ==
    {Err("transport", i, 0) : i \in {"x509", "refused", "deadline"}}
        \cup {Err("read", i, 0) : i \in {"ueof", "badmac"}}
        \cup {Err("status", "", 500), Err("mkdir", "denied", 0),
              Err("newreq", "noscheme", 0), Err("rename", "denied", 0)}

ToLower(s) == [i \in 1..Len(s) |-> IF s[i] = "A" THEN "a" ELSE s[i]]

\* C39: contains is case-insensitive: the result of contains(s, sub) stays
\* the same when the letter case of s, or of sub, is changed.
C39_CaseInsensitive ==
    match.found # <<>> =>
        /\ contains(ToLower(match.hay), match.needle) = match.found[1]
        /\ contains(match.hay, ToLower(match.needle)) = match.found[1]

DfReturned == df.pc = "done"
DfStreamError == DfReturned /\ df.ret.kind \in {"read", "write"}
\* what holds of a call of DownloadFile in every state
DirectWrite ==
    /\ df.requests <= 1
    /\ df.pc \in {"create", "read"} => df.requests = 1
    /\ DfReturned /\ df.ret.kind \notin {"mkdir", "newreq"} => df.requests = 1
    /\ DfReturned /\ df.ret = NilErr =>
          /\ df.resp.status = StatusOK
          /\ df.dest = File(df.resp.body)
    /\ DfReturned /\ df.resp # NoResp /\ df.resp.status # StatusOK =>
          /\ df.ret = Err("status", "", df.resp.status)
          /\ df.written = <<>>
    /\ df.pc = "read" \/ DfStreamError =>
          /\ df.dest = File(df.written)
          /\ IsPrefix(df.written, df.resp.body)
    /\ DfStreamError => df.ret # NilErr /\ df.resp.status = StatusOK

\* C34: DownloadFile does not retry and uses no temp file: no call sends
\* more than one request, and a call that got as far as sending has sent
\* exactly one when it returns; it returns nil only after a 200, and any
\* other status is returned as an error with the destination untouched (no
\* step before os.Create changes it); the body is written straight into the
\* destination, so a call that returns a read or write error from the loop
\* leaves the destination in place, holding exactly the bytes written so
\* far, a prefix of the body; no step of a call touches dest + ".tmp".
C34_SingleShotDirectWrite ==
    /\ []DirectWrite
    /\ [][/\ df'.tmp = df.tmp
          /\ df.pc \in {"idle", "done", "start", "do"} => df'.dest = df.dest]_vars

\* two of the three bytes are in the destination when the read fails
C34_Witness ==
    /\ DfStreamError
    /\ df.ret = Err("read", "ueof", 0)
    /\ df.dest = File(SubSeq(Content, 1, 2))
    /\ df.resp.body = Content
    /\ df.requests = 1

\* C35: the context given to DownloadReleaseAsset has no effect: the call
\* is DownloadWithProgress on the stable or nightly release url; cancelling
\* the context changes nothing of the transfer, and the request of every
\* attempt made under a cancelled context is answered or fails as under a
\* live one, so the attempt goes on and the retries and delays follow.
C35_ContextIgnored ==
    [][/\ ctx' # ctx => UNCHANGED downloadVars
       /\ Do => DoIn(client, "live")
       /\ (pc = "idle" /\ pc' # "idle") =>
             /\ url' \in {"stable", "nightly"}
             /\ Call(url', hasCallback')]_vars

\* the context was cancelled before the call; the first attempt failed, the
\* delay was taken and the second attempt committed the whole content
C35_Witness ==
    /\ ctx = "cancelledBeforeCall"
    /\ Returned
    /\ result.status = "ok"
    /\ LogEvents = <<"verified", "delay", "verified">>
    /\ dest = File(Content)

\* C36: against a server that returns at most the number of items asked
\* for, no GetNews(limit) call returns more than limit items, whichever
\* path it takes.
C36_LimitRespected ==
    newsRet.called => Len(newsRet.items) <= newsRet.limit

\* the paths on which the limit is kept: the cache hit and the fresh fetch
LimitKeptOffFallback ==
    newsRet.called /\ newsRet.fetch # "err" => Len(newsRet.items) <= newsRet.limit

\* C37: once a call has returned a non-empty list (the cache is non-empty
\* from then on), the cache stays non-empty and every later call returns
\* without error, whatever the fetches do.
C37_CacheNeverRegresses ==
    /\ [](newsRet.called /\ Len(newsRet.items) > 0 => Len(cache) > 0)
    /\ [][Len(cache) > 0 =>
             /\ Len(cache') > 0
             /\ newsRet' # newsRet => ~newsRet'.err]_vars

\* a call fails after the cache was emptied by a fetch of zero items
ErrorAfterEmptyFetch ==
    /\ newsRet.called
    /\ newsRet.err
    /\ newsRet.timeWas > 0

AllDigits(s) == \A i \in 1..Len(s) : IsDigit(s[i])

\* dir is '<inst>/<branch>-v<version>', or '<inst>/latest' for version 0
IsInstancePath(dir, inst, branch, version) ==
    LET name == SubSeq(dir, Len(inst) + 2, Len(dir))
        number == SubSeq(name, Len(branch) + 3, Len(name))
    IN  /\ IsPrefix(inst \o <<"/">>, dir)
        /\ IF version = 0 THEN name = TxtLatest
           ELSE /\ IsPrefix(branch \o <<"-", "v">>, name)
                /\ AllDigits(number)
                /\ Sscanf(number) = [ok |-> TRUE, v |-> version]

\* the mapping of the claim, <instances> being inst
InstanceMapping(inst) ==
    /\ \A b \in Branches, v \in Versions :
          IsInstancePath(GetInstanceDir(b, v), inst, b, v)
    /\ \A b1 \in Branches, b2 \in Branches :
          /\ GetInstanceDir(b1, 0) = GetInstanceDir(b2, 0)
          /\ \A v1 \in Versions \ {0}, v2 \in Versions \ {0} :
                <<b1, v1>> # <<b2, v2>> => GetInstanceDir(b1, v1) # GetInstanceDir(b2, v2)
    /\ \A b \in Branches :
          0 \in GetInstalledVersions(b) <=> Join(inst, TxtLatest) \in env.installed

DefaultInstances == TxtAppDir \o <<"/">> \o TxtInstances

\* C38 as stated: <instances> is the last non-empty directory given to
\* SetCustomInstanceDir, or the default when none was env.given.
C38_InstanceMapping ==
    InstanceMapping(IF env.given.lastNonEmpty # <<>> THEN env.given.lastNonEmpty
                    ELSE DefaultInstances)

\* C38, amended: GetInstanceDir(branch, version) is
\* '<instances>/<branch>-v<version>' for version # 0 and '<instances>/latest'
\* for version 0 whatever the branch, <instances> being the directory given
\* by the latest SetCustomInstanceDir call when that is non-empty, and the
\* default when there was no call or the latest call gave the empty string;
\* distinct (branch, version) pairs with version # 0 have distinct
\* directories, the branches share 'latest', and GetInstalledVersions
\* reports 0 for a branch exactly when 'latest' is installed.
C38_MappingFromLatestCall ==
    InstanceMapping(IF env.given.last # <<>> THEN env.given.last ELSE DefaultInstances)

\* a custom directory was given and then the empty string; 'latest' was
\* installed under the default directory and is reported for pre-release
C38_Witness ==
    /\ env.given = [last |-> <<>>, lastNonEmpty |-> TxtCustom]
    /\ Join(DefaultInstances, TxtLatest) \in env.installed
    /\ env.ret.op = "GetInstalledVersions"
    /\ env.ret.branch = TxtPreRelease
    /\ env.ret.versions = {0}

====
